---------------------------- MODULE Spec2Model ----------------------------
(***************************************************************************)
(* Canonical collection of LR(0) items (src/unnamed/part_000, lines        *)
(* 273-778): Grammar text normalisation, the global item registry, and the *)
(* recursive closure / goto construction, modelled as a heap of Grammar,   *)
(* LRItem and Closure objects plus the JavaScript call stack.              *)
(*                                                                         *)
(* A JavaScript string is a sequence of characters; a character is a       *)
(* one-character TLA+ string, the two non-ASCII characters of the source   *)
(* being written by their code points.  Object references are indices into *)
(* the heaps, 0 being null.                                                *)
(***************************************************************************)
EXTENDS Integers, Sequences, FiniteSets, TLC

\* ------------------------------------------------------------------------
\* Characters and JavaScript string primitives
\* ------------------------------------------------------------------------

\* const EPSILON = 'ε' : a one-character string.
EPSILON == <<"U+03B5">>

\* The dot marker '•' that keyForItem splices into the RHS.
Bullet == <<"U+2022">>

\* The value `undefined` where the code stores it in place of a string.
Undefined == <<"undefined">>

\* What a template literal `${v}` renders for a string or for undefined.
TemplateStr(v) ==
    IF v = Undefined THEN <<"u", "n", "d", "e", "f", "i", "n", "e", "d">> ELSE v

\* The characters matched by \s that occur in grammar text.
IsSpace(c) == c \in {" ", "\n", "\t", "\r"}

\* Whether pat occurs in s at (1-based) position i.
MatchAt(s, pat, i) ==
    /\ i + Len(pat) - 1 <= Len(s)
    /\ \A j \in 1..Len(pat) : s[i + j - 1] = pat[j]

\* String.prototype.indexOf, 1-based; 0 stands for JavaScript's -1.
IndexOf(s, pat) ==
    LET hits == {i \in 1..Len(s) : MatchAt(s, pat, i)}
    IN  IF hits = {} THEN 0 ELSE CHOOSE i \in hits : \A j \in hits : i <= j

\* String.prototype.split(separator) for a non-empty separator: every
\* segment, the empty ones included.
RECURSIVE Split(_, _)
Split(s, sep) ==
    LET i == IndexOf(s, sep)
    IN  IF i = 0 THEN <<s>>
        ELSE <<SubSeq(s, 1, i - 1)>> \o Split(SubSeq(s, i + Len(sep), Len(s)), sep)

RECURSIVE TrimLeft(_)
TrimLeft(s) ==
    IF s # <<>> /\ IsSpace(Head(s)) THEN TrimLeft(Tail(s)) ELSE s

RECURSIVE TrimRight(_)
TrimRight(s) ==
    IF s # <<>> /\ IsSpace(s[Len(s)]) THEN TrimRight(SubSeq(s, 1, Len(s) - 1)) ELSE s

\* String.prototype.trim
Trim(s) == TrimRight(TrimLeft(s))

\* Length of the maximal run of whitespace at the head of s.
RECURSIVE SpaceRun(_)
SpaceRun(s) ==
    IF s # <<>> /\ IsSpace(Head(s)) THEN 1 + SpaceRun(Tail(s)) ELSE 0

\* String.prototype.split(/\s+/): the segments between maximal whitespace
\* runs (a leading or trailing run yields an empty segment).
RECURSIVE SplitSpaces(_, _)
SplitSpaces(s, cur) ==
    IF s = <<>> THEN <<cur>>
    ELSE IF IsSpace(Head(s))
         THEN <<cur>> \o SplitSpaces(SubSeq(s, SpaceRun(s) + 1, Len(s)), <<>>)
         ELSE SplitSpaces(Tail(s), Append(cur, Head(s)))

\* Array.prototype.join(sep)
RECURSIVE Join(_, _)
Join(parts, sep) ==
    IF parts = <<>> THEN <<>>
    ELSE IF Len(parts) = 1 THEN parts[1]
         ELSE parts[1] \o sep \o Join(Tail(parts), sep)

\* ------------------------------------------------------------------------
\* 1. GrammarSymbol
\* ------------------------------------------------------------------------

IsQuote(c) == c \in {"'", "\""}

\* GrammarSymbol.isTerminal: first and last character are quotes.  An empty
\* symbol has no first character (undefined), which the regexp rejects.
isTerminal(symbol) ==
    /\ symbol # <<>>
    /\ IsQuote(symbol[1])
    /\ IsQuote(symbol[Len(symbol)])

isNonTerminal(symbol) == ~isTerminal(symbol)

isEpsilon(symbol) == symbol = EPSILON

\* ------------------------------------------------------------------------
\* 2. Production
\* ------------------------------------------------------------------------

\* The loop of Production._normalize over the whitespace-split RHS tokens:
\* two adjacent '"' tokens become the one terminal '" "'.
RECURSIVE RhsSymbols(_)
RhsSymbols(rhsProd) ==
    IF rhsProd = <<>> THEN <<>>
    ELSE IF Len(rhsProd) >= 2 /\ rhsProd[1] = <<"\"">> /\ rhsProd[2] = <<"\"">>
         THEN <<(<<"\"", " ", "\"">>)>> \o RhsSymbols(SubSeq(rhsProd, 3, Len(rhsProd)))
         ELSE <<rhsProd[1]>> \o RhsSymbols(Tail(rhsProd))

\* A Production that takes a line without a splitter as a left-hand side
\* with no right-hand side instead of failing.
ProductionLenient(raw) ==
    LET splitter == IF IndexOf(raw, <<"-", ">">>) # 0 THEN <<"-", ">">> ELSE <<"|">>
        splitted == Split(raw, splitter)
        rhsStr   == IF Len(splitted) < 2 THEN <<>> ELSE Trim(splitted[2])
    IN  [ok  |-> TRUE,
         raw |-> raw,
         LHS |-> Trim(splitted[1]),
         RHS |-> IF rhsStr = <<>> THEN <<EPSILON>>
                 ELSE RhsSymbols(SplitSpaces(rhsStr, <<>>))]

\* A Production that leaves the RHS empty when there is no RHS text.
ProductionEmptyRhs(raw) ==
    LET splitter == IF IndexOf(raw, <<"-", ">">>) # 0 THEN <<"-", ">">> ELSE <<"|">>
        splitted == Split(raw, splitter)
    IN  IF Len(splitted) < 2
        THEN [ok |-> FALSE, raw |-> raw, LHS |-> <<>>, RHS |-> <<>>]
        ELSE [ok  |-> TRUE,
              raw |-> raw,
              LHS |-> Trim(splitted[1]),
              RHS |-> IF Trim(splitted[2]) = <<>> THEN <<>>
                      ELSE RhsSymbols(SplitSpaces(Trim(splitted[2]), <<>>))]

\* new Production(raw): constructor + _normalize.  ok = FALSE stands for the
\* TypeError thrown by splitted[1].trim() when the line has no splitter.
Production(raw) ==
    LET splitter == IF IndexOf(raw, <<"-", ">">>) # 0 THEN <<"-", ">">> ELSE <<"|">>
        splitted == Split(raw, splitter)
    IN  IF Len(splitted) < 2
        THEN [ok |-> FALSE, raw |-> raw, LHS |-> <<>>, RHS |-> <<>>]
        ELSE LET rhsStr == Trim(splitted[2])
             IN  [ok  |-> TRUE,
                  raw |-> raw,
                  LHS |-> Trim(splitted[1]),
                  RHS |-> IF rhsStr = <<>> THEN <<EPSILON>>
                          ELSE RhsSymbols(SplitSpaces(rhsStr, <<>>))]

\* Production.setLHS
setLHS(production, LHS) == [production EXCEPT !.LHS = LHS]

\* ------------------------------------------------------------------------
\* 3. Grammar
\* ------------------------------------------------------------------------

\* Array.prototype.filter(production => !!production.trim())
RECURSIVE NonBlank(_)
NonBlank(lines) ==
    IF lines = <<>> THEN <<>>
    ELSE IF Trim(Head(lines)) # <<>> THEN <<Head(lines)>> \o NonBlank(Tail(lines))
         ELSE NonBlank(Tail(lines))

\* Grammar._toArray: an array is taken as it is, a string is split into its
\* non-blank lines.
toArray(grammar) ==
    IF grammar.isArray THEN grammar.lines
    ELSE NonBlank(Split(grammar.text, <<"\n">>))

\* The state of the forEach of Grammar._normalizeBnf before any line.
NormalizeStart ==
    [ok |-> TRUE, bnf |-> <<>>, currentNonTerminal |-> Undefined,
     startSymbol |-> Undefined, augmented |-> FALSE]

\* One iteration of the forEach of Grammar._normalizeBnf, on line k (0-based)
\* with acc the variables the callback closes over; bnf is kept as the
\* sequence of productions 0..k, stored at index (production number + 1).
NormalizeLine(acc, rawProduction, k) ==
    LET parsed     == Production(rawProduction)
        production == IF parsed.LHS = <<>>
                      THEN setLHS(parsed, acc.currentNonTerminal)
                      ELSE parsed
        start      == IF k = 0 THEN production.LHS ELSE acc.startSymbol
        augText    == TemplateStr(start) \o <<"'", " ", "-", ">", " ">> \o TemplateStr(start)
        withAug    == IF k = 0 THEN <<Production(augText)>> ELSE acc.bnf
    IN  IF ~acc.ok THEN acc
        ELSE IF ~parsed.ok THEN [acc EXCEPT !.ok = FALSE]
        ELSE [ok |-> TRUE,
              bnf |-> Append(withAug, production),
              currentNonTerminal |-> production.LHS,
              startSymbol |-> start,
              augmented |-> TRUE]

RECURSIVE NormalizeFrom(_, _, _)
NormalizeFrom(acc, lines, k) ==
    IF k >= Len(lines) THEN acc
    ELSE NormalizeFrom(NormalizeLine(acc, lines[k + 1], k), lines, k + 1)

\* new Grammar(grammar): constructor + _normalizeBnf.  bnf[n + 1] is the
\* production numbered n; hasAugmented is _isAugmentedProduction !== null
\* (the augmented production is the object stored under number 0).
Grammar(grammar) ==
    LET r == NormalizeFrom(NormalizeStart, toArray(grammar), 0)
    IN  [originalBnf |-> grammar, ok |-> r.ok, bnf |-> r.bnf,
         startSymbol |-> r.startSymbol, hasAugmented |-> r.augmented]

\* The production numbers of a grammar, in `for (let k in this._bnf)` order
\* (integer keys ascending).
ProductionNumbers(g) == 0..(Len(g.bnf) - 1)

\* Grammar.getProduction(number)
getProduction(g, number) == g.bnf[number + 1]

\* Grammar.getProductionsForSymbol: the numbers (keys) of the productions
\* whose LHS is the symbol, ascending.
RECURSIVE ProductionsFrom(_, _, _)
ProductionsFrom(g, symbol, k) ==
    IF k >= Len(g.bnf) THEN <<>>
    ELSE IF getProduction(g, k).LHS = symbol
         THEN <<k>> \o ProductionsFrom(g, symbol, k + 1)
         ELSE ProductionsFrom(g, symbol, k + 1)

\* getProductionsForSymbol that stops at the first matching production.
getProductionsForSymbolFirstOnly(g, symbol) ==
    LET all == ProductionsFrom(g, symbol, 0)
    IN  IF all = <<>> THEN <<>> ELSE <<all[1]>>

getProductionsForSymbol(g, symbol) == ProductionsFrom(g, symbol, 0)

\* keyForItem with the dot marker always spliced in at position 0.
keyForItemDotFirst(production, dotPosition) ==
    TemplateStr(production.LHS) \o <<" ", "-", ">", " ">>
        \o Join(<<Bullet>> \o production.RHS, <<" ">>)

\* keyForItem with the RHS joined without a separator.
keyForItemNoSeparator(production, dotPosition) ==
    LET RHS     == production.RHS
        at      == IF dotPosition > Len(RHS) THEN Len(RHS) ELSE dotPosition
        spliced == SubSeq(RHS, 1, at) \o <<Bullet>> \o SubSeq(RHS, at + 1, Len(RHS))
    IN  TemplateStr(production.LHS) \o <<" ", "-", ">", " ">> \o Join(spliced, <<>>)

\* LRItem.keyForItem: the RHS symbols with the dot marker spliced in at
\* dotPosition, joined by blanks, after "LHS -> ".
keyForItem(production, dotPosition) ==
    LET RHS     == production.RHS
        at      == IF dotPosition > Len(RHS) THEN Len(RHS) ELSE dotPosition
        spliced == SubSeq(RHS, 1, at) \o <<Bullet>> \o SubSeq(RHS, at + 1, Len(RHS))
    IN  TemplateStr(production.LHS) \o <<" ", "-", ">", " ">> \o Join(spliced, <<" ">>)


\* ------------------------------------------------------------------------
\* Grammar texts the construction is run on
\* ------------------------------------------------------------------------

\* A grammar given as a text block (the form the source's test uses).
Text(t) == [isArray |-> FALSE, lines |-> <<>>, text |-> t]

\* The example grammar of the source (lines 737-741), with the template
\* literal's leading newline and indentation.
ExampleText ==
    Text(<<"\n", " ", " ", "S", " ", "-", ">", " ", "A", " ", "A", "\n", " ", " ", "A", " ", "-", ">", " ", "\"", "a", "\"", " ", "A", "\n", " ", " ", " ", " ", " ", "|", " ", "\"", "b", "\"", "\n">>)

\* E -> E "+" T ; T -> "n" : directly left-recursive.
LeftRecursiveText ==
    Text(<<"E", " ", "-", ">", " ", "E", " ", "\"", "+", "\"", " ", "T", "\n", "T", " ", "-", ">", " ", "\"", "n", "\"">>)

\* A -> B ; B -> A : indirectly left-recursive.
IndirectText ==
    Text(<<"A", " ", "-", ">", " ", "B", "\n", "B", " ", "-", ">", " ", "A">>)

\* S -> A "c" ; A -> "b" : shares the text of A -> "b" with the example.
OtherText ==
    Text(<<"S", " ", "-", ">", " ", "A", " ", "\"", "c", "\"", "\n", "A", " ", "-", ">", " ", "\"", "b", "\"">>)

\* S -> B "x" ; B ->   : a production with no RHS text (epsilon).
EpsilonText ==
    Text(<<"S", " ", "-", ">", " ", "B", " ", "\"", "x", "\"", "\n", "B", " ", "-", ">">>)

\* S -> A "c" | A "d" ; A -> "b" : two alternatives that begin with A.
SharedPrefixText ==
    Text(<<"S", " ", "-", ">", " ", "A", " ", "\"", "c", "\"", "\n", " ", " ", " ", "|", " ", "A", " ", "\"", "d", "\"", "\n", "A", " ", "-", ">", " ", "\"", "b", "\"">>)

GrammarTexts ==
    {ExampleText, LeftRecursiveText, IndirectText, OtherText, EpsilonText,
     SharedPrefixText}


\* ------------------------------------------------------------------------
\* Bounds
\* ------------------------------------------------------------------------

\* Frames the call stack holds before the engine throws RangeError (the
\* engine's limit is some ten thousand frames; the model's is scaled down).
MaxStack == 14

\* Grammars analysed in one process, one after the other.
MaxSessions == 2

\* Top-level closure() calls in one run (each builds a new Closure object).
MaxClosureCalls == 1

\* ------------------------------------------------------------------------
\* State
\* ------------------------------------------------------------------------

VARIABLES
    grammars,         \* heap of Grammar objects, in order of construction
    items,            \* heap of LRItem objects
    closures,         \* heap of Closure objects
    LRItemsRegistry,  \* the module-level registry: serialized key -> item
    kernelItem,       \* the root item of each session (kernelItem[s] for grammars[s])
    stack,            \* the call stack of the call in progress, innermost last
    status,           \* "idle" | "running" | the name of the error thrown
    ret,              \* the last completed top-level call and the value it returned
    closureCalls,     \* top-level closure() calls made so far
    advanceCalls,     \* top-level advance() calls made so far
    compiler,         \* backDescent.js: the compilerEngile instance and where run() stands
    sets,             \* first and follow.js: grammar, START_SYMBOL and the Sets being built
    printer,          \* AST printer: the ast compiled, output and prevBinaryOp
    table,            \* ParserTable.js: the arguments of buildParsingTable and parsingTable
    traverse          \* tree traversal: the tree, the node, the stack and the nodes visited

vars == <<grammars, items, closures, LRItemsRegistry, kernelItem, stack, status,
          ret, closureCalls, advanceCalls, compiler, sets, printer, table, traverse>>

\* The state of the other scripts of the repository, each a program of its
\* own: one that is not running is Off.
programs == <<compiler, sets, printer, table, traverse>>

others == <<advanceCalls, programs>>

Off == [pc |-> "off"]

OthersOff ==
    /\ advanceCalls = 0
    /\ compiler = Off /\ sets = Off /\ printer = Off /\ table = Off /\ traverse = Off

Null == 0

\* ------------------------------------------------------------------------
\* 4. LRItem
\* ------------------------------------------------------------------------

\* new LRItem({production, dotPosition, grammar}); production is a reference
\* to a Production object: the Grammar that owns it and its number there.
LRItem(production, dotPosition, grammar) ==
    [production |-> production, dotPosition |-> dotPosition, grammar |-> grammar,
     closure |-> Null, gotoPointer |-> Null]

\* The Production object an item refers to.
productionOf(item) == getProduction(grammars[item.production.grammar], item.production.number)

\* LRItem.isFinal
isFinal(item) == item.dotPosition = Len(productionOf(item).RHS)

\* LRItem.getCurrentSymbol (only read when the dot is inside the RHS)
getCurrentSymbol(item) == productionOf(item).RHS[item.dotPosition + 1]

\* LRItem.shouldClosure
shouldClosure(item) == ~isFinal(item) /\ isNonTerminal(getCurrentSymbol(item))

\* LRItem.isConnected
isConnected(item) == item.gotoPointer # Null

\* LRItem.serialize
serialize(item) == keyForItem(productionOf(item), item.dotPosition)

\* advance that copies the item without moving the dot.
advanceSameDot(item) ==
    [ok   |-> ~isFinal(item),
     item |-> LRItem(item.production, item.dotPosition, item.grammar)]

\* advance that does not test isFinal.
advanceNeverFails(item) ==
    [ok   |-> TRUE,
     item |-> LRItem(item.production, item.dotPosition + 1, item.grammar)]

\* LRItem.advance: ok = FALSE is the Error thrown for a final item.
advance(item) ==
    [ok   |-> ~isFinal(item),
     item |-> LRItem(item.production, item.dotPosition + 1, item.grammar)]

\* goto that does not look at the cached target.
gotoBuildsIgnoringCache(item) == ~isFinal(item)

\* goto that does not test isFinal.
gotoBuildsIgnoringFinal(item) == ~isConnected(item)

\* The condition under which LRItem.goto builds a new target closure.
gotoBuilds(item) == ~isFinal(item) /\ ~isConnected(item)

\* ------------------------------------------------------------------------
\* 5. Closure
\* ------------------------------------------------------------------------

\* A Closure constructor that starts from an empty item sequence.
ClosureWithoutKernel(kernel, grammar) ==
    [kernelItem |-> kernel, currentItem |-> kernel, items |-> <<>>,
     grammar |-> grammar]

\* The fields the Closure constructor sets before it calls _build.
Closure(kernel, grammar) ==
    [kernelItem |-> kernel, currentItem |-> kernel, items |-> <<kernel>>,
     grammar |-> grammar]

\* ------------------------------------------------------------------------
\* The call stack
\* ------------------------------------------------------------------------

\* A frame: the method running (op), its receiver (obj), where it stands
\* (pc), and its locals: productionsForSymbol (prods), a loop index (idx) and
\* the Closure it has constructed (made).
Frame(op, obj, pc) ==
    [op |-> op, obj |-> obj, pc |-> pc, prods |-> <<>>, idx |-> 1, made |-> Null]

Top == stack[Len(stack)]

Below == SubSeq(stack, 1, Len(stack) - 1)

\* ret: the method (op) and receiver (obj) of the last completed top-level
\* call, the value it returned, and whether the call before it was the same
\* call (again).  No call has completed since a call began: NoRet.
NoRet == [op |-> "none", obj |-> Null, value |-> Null, again |-> FALSE]

\* A call made from the frames stk: the callee's frame is pushed unless the
\* stack is exhausted, in which case RangeError unwinds every frame.
Call(stk, frame) ==
    /\ ret' = NoRet
    /\ IF Len(stk) < MaxStack
       THEN /\ stack' = Append(stk, frame)
            /\ status' = "running"
       ELSE /\ stack' = <<>>
            /\ status' = "RangeError"

\* The frame f, called from the frames below, returns value; the result of a
\* top-level call is recorded.
Return(below, f, value) ==
    /\ stack' = below
    /\ IF below = <<>>
       THEN /\ status' = "idle"
            /\ ret' = [op |-> f.op, obj |-> f.obj, value |-> value,
                       again |-> ret.op = f.op /\ ret.obj = f.obj]
       ELSE /\ status' = "running"
            /\ UNCHANGED ret

\* An uncaught error unwinds every frame.
Throw(error) ==
    /\ stack' = <<>>
    /\ status' = error
    /\ ret' = NoRet

Idle == status = "idle" /\ stack = <<>>

\* The innermost frame is in method op at position pc.
At(op, pc) == status = "running" /\ stack # <<>> /\ Top.op = op /\ Top.pc = pc

\* ------------------------------------------------------------------------
\* Initial state: the script constructs a Grammar and its root item
\* ------------------------------------------------------------------------

\* kernelItem = new LRItem({production: grammar.getAugmentedProduction(), grammar})
RootItem(g) == LRItem([grammar |-> g, number |-> 0], 0, g)

Init ==
    \E text \in GrammarTexts :
        /\ grammars = <<Grammar(text)>>
        /\ items = <<RootItem(1)>>
        /\ closures = <<>>
        /\ LRItemsRegistry = <<>>
        /\ kernelItem = <<1>>
        /\ stack = <<>>
        /\ status = "idle"
        /\ ret = NoRet
        /\ closureCalls = 0
        /\ OthersOff

\* A further grammar is analysed in the same process: the registry is a
\* module-level variable and nothing resets it.
NewSession(text) ==
    /\ Idle
    /\ Len(grammars) < MaxSessions
    /\ grammars' = Append(grammars, Grammar(text))
    /\ items' = Append(items, RootItem(Len(grammars) + 1))
    /\ kernelItem' = Append(kernelItem, Len(items) + 1)
    /\ ret' = NoRet
    /\ UNCHANGED <<closures, LRItemsRegistry, stack, status, closureCalls, others>>

\* ------------------------------------------------------------------------
\* LRItem.closure (lines 582-591)
\* ------------------------------------------------------------------------

\* The entry of closure() in frame f called from the frames below: an item
\* that is not closurable returns undefined; otherwise new Closure(...) sets
\* the fields and calls _build.
ClosureEnter(below, f) ==
    IF ~shouldClosure(items[f.obj])
    THEN /\ Return(below, f, Null)
         /\ UNCHANGED <<grammars, items, closures, LRItemsRegistry, kernelItem>>
    ELSE /\ closures' = Append(closures, Closure(f.obj, items[f.obj].grammar))
         /\ Call(Append(below, [f EXCEPT !.pc = "assign", !.made = Len(closures) + 1]),
                 Frame("build", Len(closures) + 1, "enter"))
         /\ UNCHANGED <<grammars, items, LRItemsRegistry, kernelItem>>

\* item.closure() called by the script.
CallClosure(i) ==
    /\ Idle
    /\ closureCalls' = closureCalls + 1
    /\ ClosureEnter(<<>>, Frame("closure", i, "enter"))
    /\ UNCHANGED others

\* this._closure = <the new Closure>; return this._closure
ClosureAssign ==
    /\ At("closure", "assign")
    /\ items' = [items EXCEPT ![Top.obj].closure = Top.made]
    /\ Return(Below, Top, Top.made)
    /\ UNCHANGED <<grammars, closures, LRItemsRegistry, kernelItem, closureCalls, others>>

\* ------------------------------------------------------------------------
\* Closure._build (lines 694-729)
\* ------------------------------------------------------------------------

\* The item _build expands: this._currentItem.
CurrentItem(c) == items[closures[c].currentItem]

\* if (!this._currentItem.shouldClosure()) return;
BuildSkip ==
    /\ At("build", "enter")
    /\ ~shouldClosure(CurrentItem(Top.obj))
    /\ Return(Below, Top, Null)
    /\ UNCHANGED <<grammars, items, closures, LRItemsRegistry, kernelItem,
                   closureCalls, others>>

\* productionsForSymbol = this._grammar.getProductionsForSymbol(current symbol)
BuildEnter ==
    /\ At("build", "enter")
    /\ shouldClosure(CurrentItem(Top.obj))
    /\ stack' = Append(Below,
           [Top EXCEPT !.pc = "loop",
                       !.prods = getProductionsForSymbol(
                                     grammars[closures[Top.obj].grammar],
                                     getCurrentSymbol(CurrentItem(Top.obj)))])
    /\ UNCHANGED <<grammars, items, closures, LRItemsRegistry, kernelItem, status,
                   ret, closureCalls, others>>

\* A registry lookup that never finds the key.
RegisteredNever(itemKey) == FALSE

\* The registry lookup of _build: LRItemsRegistry.hasOwnProperty(itemKey).
Registered(itemKey) == itemKey \in DOMAIN LRItemsRegistry

\* A _build that skips a production whose item the closure already holds.
BuildLoopOnce ==
    /\ At("build", "loop")
    /\ Top.idx <= Len(Top.prods)
    /\ LET c          == Top.obj
           g          == closures[c].grammar
           production == [grammar |-> g, number |-> Top.prods[Top.idx]]
           itemKey    == keyForItem(getProduction(grammars[g], production.number), 0)
           addedItem  == IF Registered(itemKey) THEN LRItemsRegistry[itemKey]
                         ELSE Len(items) + 1
           held       == \E n \in 1..Len(closures[c].items) :
                             closures[c].items[n] = addedItem
       IN  IF held
           THEN /\ stack' = Append(Below, [Top EXCEPT !.idx = @ + 1])
                /\ UNCHANGED <<items, LRItemsRegistry, closures, status, ret>>
           ELSE /\ IF Registered(itemKey)
                   THEN UNCHANGED <<items, LRItemsRegistry>>
                   ELSE /\ items' = Append(items, LRItem(production, 0, g))
                        /\ LRItemsRegistry' = (itemKey :> addedItem) @@ LRItemsRegistry
                /\ closures' = [closures EXCEPT ![c].items = Append(@, addedItem),
                                                ![c].currentItem = addedItem]
                /\ Call(Append(Below, [Top EXCEPT !.idx = @ + 1]),
                        Frame("build", c, "enter"))
    /\ UNCHANGED <<grammars, kernelItem, closureCalls, others>>

\* One iteration of `for (let k in productionsForSymbol)`: register or reuse
\* the dot-0 item, push it, make it the current item, recurse.
BuildLoop ==
    /\ At("build", "loop")
    /\ Top.idx <= Len(Top.prods)
    /\ LET c          == Top.obj
           g          == closures[c].grammar
           production == [grammar |-> g, number |-> Top.prods[Top.idx]]
           itemKey    == keyForItem(getProduction(grammars[g], production.number), 0)
           addedItem  == IF Registered(itemKey) THEN LRItemsRegistry[itemKey]
                         ELSE Len(items) + 1
       IN  /\ IF Registered(itemKey)
              THEN UNCHANGED <<items, LRItemsRegistry>>
              ELSE /\ items' = Append(items, LRItem(production, 0, g))
                   /\ LRItemsRegistry' = (itemKey :> addedItem) @@ LRItemsRegistry
           /\ closures' = [closures EXCEPT ![c].items = Append(@, addedItem),
                                           ![c].currentItem = addedItem]
           /\ Call(Append(Below, [Top EXCEPT !.idx = @ + 1]),
                   Frame("build", c, "enter"))
    /\ UNCHANGED <<grammars, kernelItem, closureCalls, others>>

\* The for-in loop is exhausted: _build returns.
BuildDone ==
    /\ At("build", "loop")
    /\ Top.idx > Len(Top.prods)
    /\ Return(Below, Top, Null)
    /\ UNCHANGED <<grammars, items, closures, LRItemsRegistry, kernelItem,
                   closureCalls, others>>

\* ------------------------------------------------------------------------
\* LRItem.goto (lines 600-611)
\* ------------------------------------------------------------------------

\* The entry of goto() in frame f called from the frames below.  A final or
\* connected item returns this._gotoPointer; otherwise
\* new Closure({kernelItem: this.advance(), ...}) runs, and an Error thrown
\* by advance() is not caught.
GotoEnter(below, f) ==
    LET item == items[f.obj]
    IN  IF ~gotoBuilds(item)
        THEN /\ Return(below, f, item.gotoPointer)
             /\ UNCHANGED <<grammars, items, closures, LRItemsRegistry, kernelItem>>
        ELSE IF ~advance(item).ok
        THEN /\ Throw("ItemFinalError")
             /\ UNCHANGED <<grammars, items, closures, LRItemsRegistry, kernelItem>>
        ELSE /\ items' = Append(items, advance(item).item)
             /\ closures' = Append(closures, Closure(Len(items) + 1, item.grammar))
             /\ Call(Append(below, [f EXCEPT !.pc = "connect", !.made = Len(closures) + 1]),
                     Frame("build", Len(closures) + 1, "enter"))
             /\ UNCHANGED <<grammars, LRItemsRegistry, kernelItem>>

\* item.goto() called by the script.
CallGoto(i) ==
    /\ Idle
    /\ GotoEnter(<<>>, Frame("goto", i, "enter"))
    /\ UNCHANGED <<closureCalls, others>>

\* item.goto() called by Closure.goto.
GotoNested ==
    /\ At("goto", "enter")
    /\ GotoEnter(Below, Top)
    /\ UNCHANGED <<closureCalls, others>>

\* A goto that stores the new Closure as the target of every item of the
\* calling closure with the same symbol at the dot.
GotoConnectBySymbol ==
    /\ At("goto", "connect")
    /\ LET same == IF Below # <<>> /\ Below[Len(Below)].op = "cgoto"
                   THEN {closures[Below[Len(Below)].obj].items[n] :
                            n \in 1..Len(closures[Below[Len(Below)].obj].items)}
                   ELSE {}
           shares(j) == /\ j \in same
                        /\ ~isFinal(items[j])
                        /\ getCurrentSymbol(items[j]) = getCurrentSymbol(items[Top.obj])
       IN  items' = [j \in DOMAIN items |->
                        IF j = Top.obj \/ shares(j)
                        THEN [items[j] EXCEPT !.gotoPointer = Top.made]
                        ELSE items[j]]
    /\ Call(Append(Below, [Top EXCEPT !.pc = "return"]),
            Frame("cgoto", Top.made, "each"))
    /\ UNCHANGED <<grammars, closures, LRItemsRegistry, kernelItem, closureCalls, others>>

\* this._gotoPointer = <the new Closure>; this._gotoPointer.goto()
GotoConnect ==
    /\ At("goto", "connect")
    /\ items' = [items EXCEPT ![Top.obj].gotoPointer = Top.made]
    /\ Call(Append(Below, [Top EXCEPT !.pc = "return"]),
            Frame("cgoto", Top.made, "each"))
    /\ UNCHANGED <<grammars, closures, LRItemsRegistry, kernelItem, closureCalls, others>>

\* return this._gotoPointer
GotoReturn ==
    /\ At("goto", "return")
    /\ Return(Below, Top, items[Top.obj].gotoPointer)
    /\ UNCHANGED <<grammars, items, closures, LRItemsRegistry, kernelItem,
                   closureCalls, others>>

\* ------------------------------------------------------------------------
\* Closure.goto (lines 686-688)
\* ------------------------------------------------------------------------

\* Closure.goto that only visits the kernel.
gotoItemsKernelOnly(c) == <<closures[c].kernelItem>>

\* The items Closure.goto calls goto on, in order.
gotoItems(c) == closures[c].items

\* closure.goto() called by the script.
CallClosureGoto(c) ==
    /\ Idle
    /\ Call(<<>>, Frame("cgoto", c, "each"))
    /\ UNCHANGED <<grammars, items, closures, LRItemsRegistry, kernelItem,
                   closureCalls, others>>

\* forEach: the next item's goto().
ClosureGotoNext ==
    /\ At("cgoto", "each")
    /\ Top.idx <= Len(gotoItems(Top.obj))
    /\ Call(Append(Below, [Top EXCEPT !.idx = @ + 1]),
            Frame("goto", gotoItems(Top.obj)[Top.idx], "enter"))
    /\ UNCHANGED <<grammars, items, closures, LRItemsRegistry, kernelItem,
                   closureCalls, others>>

\* forEach is done: returns undefined.
ClosureGotoDone ==
    /\ At("cgoto", "each")
    /\ Top.idx > Len(gotoItems(Top.obj))
    /\ Return(Below, Top, Null)
    /\ UNCHANGED <<grammars, items, closures, LRItemsRegistry, kernelItem,
                   closureCalls, others>>

\* ------------------------------------------------------------------------
\* Specifications
\* ------------------------------------------------------------------------

\* The script calls closure() and goto() on any object it can reach, in any
\* order, for one grammar.
Next ==
    \/ \E i \in 1..Len(items) : closureCalls < MaxClosureCalls /\ CallClosure(i)
    \/ \E i \in 1..Len(items) : CallGoto(i)
    \/ \E c \in 1..Len(closures) : CallClosureGoto(c)
    \/ ClosureAssign
    \/ BuildSkip \/ BuildEnter \/ BuildLoop \/ BuildDone
    \/ GotoNested \/ GotoConnect \/ GotoReturn
    \/ ClosureGotoNext \/ ClosureGotoDone

Spec == Init /\ [][Next]_vars

\* The root item of the grammar analysed last.
CurrentRoot == kernelItem[Len(kernelItem)]

\* kernelItem.closure() of the statement kernelItem.closure().goto()
\* (lines 751-753), once per grammar.
ScriptClosure ==
    /\ items[CurrentRoot].closure = Null
    /\ CallClosure(CurrentRoot)

\* The chained .goto() on the Closure that closure() has just returned.
ScriptGoto ==
    /\ ret.op = "closure" /\ ret.obj = CurrentRoot /\ ret.value # Null
    /\ CallClosureGoto(ret.value)

\* Several grammars are analysed one after the other in the same process,
\* each by the statements of lines 737-753.
NextSessions ==
    \/ \E text \in GrammarTexts : NewSession(text)
    \/ ScriptClosure
    \/ ScriptGoto
    \/ ClosureAssign
    \/ BuildSkip \/ BuildEnter \/ BuildLoop \/ BuildDone
    \/ GotoNested \/ GotoConnect \/ GotoReturn
    \/ ClosureGotoNext \/ ClosureGotoDone

SpecSessions == Init /\ [][NextSessions]_vars


\* The statement kernelItem.closure().goto() for one grammar, every call it
\* makes running to its end.
NextBuild ==
    \/ ScriptClosure
    \/ ScriptGoto
    \/ ClosureAssign
    \/ BuildSkip \/ BuildEnter \/ BuildLoop \/ BuildDone
    \/ GotoNested \/ GotoConnect \/ GotoReturn
    \/ ClosureGotoNext \/ ClosureGotoDone

\* A call in progress is not suspended for ever: the engine runs the script
\* to its end or to an uncaught error.
FairBuild == Init /\ [][NextBuild]_vars /\ WF_vars(NextBuild)

\* ------------------------------------------------------------------------
\* Loading a grammar given by the caller, and advance() called directly
\* ------------------------------------------------------------------------

\* Raw production lines a caller may pass.
LineSA == <<"S", " ", "-", ">", " ", "A">>

LineOrAd == <<"|", " ", "A", " ", "\"", "d", "\"">>

LineAb == <<"A", " ", "-", ">", " ", "\"", "b", "\"">>

LineAEmpty == <<"A", " ", "-", ">">>

LineGarbage == <<"g", "a", "r", "b", "a", "g", "e">>

LineBlank == <<" ", " ">>

Lines == {LineSA, LineOrAd, LineAb, LineAEmpty, LineGarbage, LineBlank}

\* Lines in a grammar the caller passes.
MaxLines == 2

\* Top-level advance() calls in one run (each may build a new LRItem).
MaxAdvanceCalls == 2

LineSeqs == UNION {[1..n -> Lines] : n \in 0..MaxLines}

\* A grammar given as an array of raw productions.
Array(lines) == [isArray |-> TRUE, lines |-> lines, text |-> <<>>]

\* Each sequence of lines, as an array and as a newline-delimited text block.
LoadInputs ==
    {Array(lines) : lines \in LineSeqs}
        \cup {Text(Join(lines, <<"\n">>)) : lines \in LineSeqs}

\* The value null in place of a Production reference.
NullProduction == [grammar |-> Null, number |-> 0]

\* Grammar.getAugmentedProduction of the Grammar with reference g: the
\* production stored under number 0, or null when no line was normalized.
getAugmentedProduction(grammar, g) ==
    IF grammar.hasAugmented THEN [grammar |-> g, number |-> 0] ELSE NullProduction

\* No script has run yet.
InitLoad ==
    /\ grammars = <<>>
    /\ items = <<>>
    /\ closures = <<>>
    /\ LRItemsRegistry = <<>>
    /\ kernelItem = <<>>
    /\ stack = <<>>
    /\ status = "idle"
    /\ ret = NoRet
    /\ closureCalls = 0
    /\ OthersOff

\* grammar = new Grammar(input); kernelItem = new LRItem({production:
\* grammar.getAugmentedProduction(), grammar}).  A line without a splitter
\* makes the Production constructor throw a TypeError, which nothing catches.
LoadGrammar(input) ==
    /\ Idle
    /\ grammars = <<>>
    /\ IF ~Grammar(input).ok
       THEN /\ Throw("TypeError")
            /\ UNCHANGED <<grammars, items, kernelItem>>
       ELSE /\ grammars' = <<Grammar(input)>>
            /\ items' = <<LRItem(getAugmentedProduction(Grammar(input), 1), 0, 1)>>
            /\ kernelItem' = <<1>>
            /\ UNCHANGED <<stack, status, ret>>
    /\ UNCHANGED <<closures, LRItemsRegistry, closureCalls, others>>

\* kernelItem.closure() on the loaded grammar; with a null production
\* shouldClosure() reads a property of null: TypeError.
LoadedClosure ==
    /\ Idle
    /\ kernelItem # <<>>
    /\ closureCalls < MaxClosureCalls
    /\ IF items[CurrentRoot].production = NullProduction
       THEN /\ Throw("TypeError")
            /\ UNCHANGED <<grammars, items, closures, LRItemsRegistry, kernelItem,
                           closureCalls, others>>
       ELSE CallClosure(CurrentRoot)

\* item.advance() called by the script.
CallAdvance(i) ==
    /\ Idle
    /\ advanceCalls < MaxAdvanceCalls
    /\ advanceCalls' = advanceCalls + 1
    /\ IF items[i].production = NullProduction
       THEN /\ Throw("TypeError")
            /\ UNCHANGED items
       ELSE IF ~advance(items[i]).ok
       THEN /\ Throw("ItemFinalError")
            /\ UNCHANGED items
       ELSE /\ items' = Append(items, advance(items[i]).item)
            /\ ret' = [op |-> "advance", obj |-> i, value |-> Len(items) + 1,
                       again |-> ret.op = "advance" /\ ret.obj = i]
            /\ UNCHANGED <<stack, status>>
    /\ UNCHANGED <<grammars, closures, LRItemsRegistry, kernelItem, closureCalls,
                   programs>>

NextLoad ==
    \/ grammars = <<>> /\ \E input \in LoadInputs : LoadGrammar(input)
    \/ LoadedClosure
    \/ ScriptGoto
    \/ \E i \in 1..Len(items) : CallAdvance(i)
    \/ ClosureAssign
    \/ BuildSkip \/ BuildEnter \/ BuildLoop \/ BuildDone
    \/ GotoNested \/ GotoConnect \/ GotoReturn
    \/ ClosureGotoNext \/ ClosureGotoDone

SpecLoad == InitLoad /\ [][NextLoad]_vars


\* ------------------------------------------------------------------------
\* The other scripts: what they leave alone
\* ------------------------------------------------------------------------

lrVars == <<grammars, items, closures, LRItemsRegistry, kernelItem, stack, status,
            ret, closureCalls, advanceCalls>>

\* The LR construction is not part of the script that runs.
LROff ==
    /\ grammars = <<>>
    /\ items = <<>>
    /\ closures = <<>>
    /\ LRItemsRegistry = <<>>
    /\ kernelItem = <<>>
    /\ stack = <<>>
    /\ status = "off"
    /\ ret = NoRet
    /\ closureCalls = 0
    /\ advanceCalls = 0

\* ------------------------------------------------------------------------
\* src/parser/backDescent.js: the backtracking parser (lines 8-74)
\* ------------------------------------------------------------------------

\* The characters of the input strings.
Alphabet == {"s", "a", "b", "c", "d"}

\* Length of the input strings.
MaxInput == 5

Inputs == UNION {[1..n -> Alphabet] : n \in 0..MaxInput}

\* this.input[this.cursor]: undefined past the end.
InputAt(engine) ==
    IF engine.cursor < Len(engine.input) THEN engine.input[engine.cursor + 1]
    ELSE "undefined"

\* compilerEngile.eat: the engine afterwards and the value returned.
eat(engine, inputChar) ==
    IF inputChar = InputAt(engine)
    THEN [engine |-> [engine EXCEPT !.cursor = @ + 1], value |-> TRUE]
    ELSE [engine |-> engine, value |-> FALSE]

\* new compilerEngile(input), run() about to call compilerS(); save is the
\* cursor captured by saveCursor, returned the value of run().
compilerEngile(input) ==
    [input |-> input, cursor |-> 0, pc |-> "compilerS", save |-> 0,
     returned |-> FALSE]

InitBackDescent ==
    /\ \E input \in Inputs : compiler = compilerEngile(input)
    /\ LROff
    /\ sets = Off /\ printer = Off /\ table = Off /\ traverse = Off

\* compilerS: this.eat('s'), its value dropped.
CompilerSEatS ==
    /\ compiler.pc = "compilerS"
    /\ compiler' = [eat(compiler, "s").engine EXCEPT !.pc = "compilerA"]
    /\ UNCHANGED <<lrVars, sets, printer, table, traverse>>

\* compilerA, first alternative: save = this.saveCursor(this.cursor),
\* this.compilerA1() = this.eat('a') && this.eat('b').
CompilerA1 ==
    /\ compiler.pc = "compilerA"
    /\ LET saved == [compiler EXCEPT !.save = compiler.cursor]
           a     == eat(saved, "a")
           b     == eat(a.engine, "b")
       IN  compiler' = IF ~a.value THEN [a.engine EXCEPT !.pc = "compilerA2"]
                       ELSE IF ~b.value THEN [b.engine EXCEPT !.pc = "compilerA2"]
                       ELSE [b.engine EXCEPT !.pc = "eatD"]
    /\ UNCHANGED <<lrVars, sets, printer, table, traverse>>

\* A second alternative tried without backtrack(save).
CompilerA2NoBacktrack ==
    /\ compiler.pc = "compilerA2"
    /\ compiler' = [eat(compiler, "c").engine EXCEPT !.pc = "eatD"]
    /\ UNCHANGED <<lrVars, sets, printer, table, traverse>>

\* compilerA, second alternative: this.backtrack(save), this.compilerA2() =
\* this.eat('c'); the value of compilerA is dropped by compilerS.
CompilerA2 ==
    /\ compiler.pc = "compilerA2"
    /\ compiler' = [eat([compiler EXCEPT !.cursor = compiler.save], "c").engine
                       EXCEPT !.pc = "eatD"]
    /\ UNCHANGED <<lrVars, sets, printer, table, traverse>>

\* compilerS: this.eat('d'), its value dropped.
CompilerSEatD ==
    /\ compiler.pc = "eatD"
    /\ compiler' = [eat(compiler, "d").engine EXCEPT !.pc = "check"]
    /\ UNCHANGED <<lrVars, sets, printer, table, traverse>>

\* run: the Error for unmatched characters is caught and gives false.
RunReturn ==
    /\ compiler.pc = "check"
    /\ compiler' = [compiler EXCEPT !.pc = "done",
                                    !.returned = (Len(compiler.input) = compiler.cursor)]
    /\ UNCHANGED <<lrVars, sets, printer, table, traverse>>

NextBackDescent ==
    \/ CompilerSEatS
    \/ CompilerA1
    \/ CompilerA2
    \/ CompilerSEatD
    \/ RunReturn

SpecBackDescent == InitBackDescent /\ [][NextBackDescent]_vars


\* ------------------------------------------------------------------------
\* src/parser/backDescent.js: the predictive parser (lines 83-144)
\* ------------------------------------------------------------------------

\* compilerEngile.eat of the predictive parser: the engine afterwards, and
\* whether the Error of line 132 is thrown instead.
eatOrThrow(engine, inputChar) ==
    IF inputChar = InputAt(engine)
    THEN [engine |-> [engine EXCEPT !.cursor = @ + 1], threw |-> FALSE]
    ELSE [engine |-> engine, threw |-> TRUE]

\* catch (e) { ...; return false; }
Caught(engine) == [engine EXCEPT !.pc = "done", !.returned = FALSE]

\* new compilerEngile(input) of the predictive parser, run() about to call
\* compilerS().
InitPredictive ==
    /\ \E input \in Inputs :
           compiler = [input |-> input, cursor |-> 0, pc |-> "compilerS",
                       returned |-> FALSE]
    /\ LROff
    /\ sets = Off /\ printer = Off /\ table = Off /\ traverse = Off

\* compilerS: this.eat('s')
PredictiveEatS ==
    /\ compiler.pc = "compilerS"
    /\ LET s == eatOrThrow(compiler, "s")
       IN  compiler' = IF s.threw THEN Caught(s.engine)
                       ELSE [s.engine EXCEPT !.pc = "compilerA"]
    /\ UNCHANGED <<lrVars, sets, printer, table, traverse>>

\* compilerA: the alternative is chosen by the character at the cursor; with
\* neither 'a' nor 'c' there, nothing is eaten and nothing is thrown.
PredictiveA ==
    /\ compiler.pc = "compilerA"
    /\ LET a == eatOrThrow(compiler, "a")
           b == eatOrThrow(a.engine, "b")
           c == eatOrThrow(compiler, "c")
       IN  compiler' =
               IF InputAt(compiler) = "a"
               THEN IF a.threw THEN Caught(a.engine)
                    ELSE IF b.threw THEN Caught(b.engine)
                    ELSE [b.engine EXCEPT !.pc = "eatD"]
               ELSE IF InputAt(compiler) = "c"
               THEN IF c.threw THEN Caught(c.engine)
                    ELSE [c.engine EXCEPT !.pc = "eatD"]
               ELSE [compiler EXCEPT !.pc = "eatD"]
    /\ UNCHANGED <<lrVars, sets, printer, table, traverse>>

\* compilerS: this.eat('d')
PredictiveEatD ==
    /\ compiler.pc = "eatD"
    /\ LET d == eatOrThrow(compiler, "d")
       IN  compiler' = IF d.threw THEN Caught(d.engine)
                       ELSE [d.engine EXCEPT !.pc = "check"]
    /\ UNCHANGED <<lrVars, sets, printer, table, traverse>>

\* run: unmatched characters left over throw, which is caught; otherwise
\* return true.
PredictiveReturn ==
    /\ compiler.pc = "check"
    /\ compiler' = [compiler EXCEPT !.pc = "done",
                                    !.returned = (Len(compiler.input) = compiler.cursor)]
    /\ UNCHANGED <<lrVars, sets, printer, table, traverse>>

NextPredictive ==
    \/ PredictiveEatS
    \/ PredictiveA
    \/ PredictiveEatD
    \/ PredictiveReturn

SpecPredictive == InitPredictive /\ [][NextPredictive]_vars

\* ------------------------------------------------------------------------
\* src/parser/first and follow.js: First and Follow sets
\* ------------------------------------------------------------------------

\* A grammar is an object from production numbers to production strings; a
\* symbol (an object key) is a string; a set is an object whose keys are its
\* members, held here as the set of its keys; firstSets and followSets are
\* objects from symbols to sets, held as functions.

Uppercase == {"A", "B", "C", "D", "E", "F", "G", "H", "I", "J", "K", "L", "M", "N", "O", "P", "Q", "R", "S", "T", "U", "V", "W", "X", "Y", "Z"}

\* isTerminal (lines 216-218): no upper-case letter in the symbol.
ffIsTerminal(symbol) == ~\E n \in 1..Len(symbol) : symbol[n] \in Uppercase

\* String.prototype.replace(/\s+/g, '')
StripSpaces(s) == SelectSeq(s, LAMBDA c : ~IsSpace(c))

getLHS(production) == StripSpaces(Split(production, <<"-", ">">>)[1])

getRHS(production) == StripSpaces(Split(production, <<"-", ">">>)[2])

\* The keys of an object with integer keys, in for-in order (ascending).
RECURSIVE SortedKeys(_)
SortedKeys(S) ==
    IF S = {} THEN <<>>
    ELSE LET m == CHOOSE x \in S : \A y \in S : x <= y
         IN  <<m>> \o SortedKeys(S \ {m})

\* The globals of the script while it runs: the variable sets holds them.
grammar == sets.grammar

START_SYMBOL == sets.START_SYMBOL

\* The end-of-input marker '$'.
Dollar == <<"$">>

\* getProductionsForSymbol (lines 88-96): the keys of the productions whose
\* first character is the symbol.
ffProductionsForSymbol(symbol) ==
    SelectSeq(SortedKeys(DOMAIN grammar), LAMBDA k : <<grammar[k][1]>> = symbol)

\* getProductionsWithSymbol (lines 204-214): the keys of the productions
\* whose RHS contains the symbol.
getProductionsWithSymbol(symbol) ==
    SelectSeq(SortedKeys(DOMAIN grammar),
              LAMBDA k : IndexOf(getRHS(grammar[k]), symbol) # 0)

\* merge(to, from, exclude) on the key sets.
merge(to, from, exclude) == to \cup (from \ exclude)

\* obj[key] = value
Put(obj, key, value) == (key :> value) @@ obj

\* firstOf (lines 21-74): the firstSets object after the call; the value
\* returned is its entry for the symbol.
RECURSIVE firstOf(_, _)
RECURSIVE FirstOfProductions(_, _, _)
RECURSIVE FirstOfRhs(_, _, _, _)
firstOf(symbol, firstSets) ==
    IF symbol \in DOMAIN firstSets THEN firstSets
    ELSE IF ffIsTerminal(symbol) THEN Put(firstSets, symbol, {symbol})
    ELSE FirstOfProductions(symbol, ffProductionsForSymbol(symbol),
                            Put(firstSets, symbol, {}))

\* for (let k in productionsForSymbol)
FirstOfProductions(symbol, ks, firstSets) ==
    IF ks = <<>> THEN firstSets
    ELSE FirstOfProductions(symbol, Tail(ks),
             FirstOfRhs(symbol, getRHS(grammar[Head(ks)]), 0, firstSets))

\* for (let i = 0; i < production.length; i++), from index i
FirstOfRhs(symbol, production, i, firstSets) ==
    IF i >= Len(production) THEN firstSets
    ELSE LET productionSymbol == <<production[i + 1]>>
         IN  IF productionSymbol = EPSILON
             THEN Put(firstSets, symbol, firstSets[symbol] \cup {EPSILON})
             ELSE LET after == firstOf(productionSymbol, firstSets)
                      firstOfNonTerminal == after[productionSymbol]
                  IN  IF EPSILON \notin firstOfNonTerminal
                      THEN Put(after, symbol,
                               merge(after[symbol], firstOfNonTerminal, {}))
                      ELSE FirstOfRhs(symbol, production, i + 1,
                               Put(after, symbol,
                                   merge(after[symbol], firstOfNonTerminal, {EPSILON})))

\* followOf (lines 128-188) called with the objects firstSets and followSets
\* in its second and third parameter: the two objects after the call, in
\* the same positions; the value returned is followSets[symbol].
RECURSIVE followOf(_, _, _)
RECURSIVE FollowOfProductions(_, _, _, _)
RECURSIVE FollowOfRhs(_, _, _, _, _)
followOf(symbol, firstSets, followSets) ==
    IF symbol \in DOMAIN followSets
    THEN [firstSets |-> firstSets, followSets |-> followSets]
    ELSE FollowOfProductions(symbol, getProductionsWithSymbol(symbol), firstSets,
             Put(followSets, symbol,
                 IF symbol = START_SYMBOL THEN {Dollar} ELSE {}))

\* for (let k in productionsWithSymbol)
FollowOfProductions(symbol, ks, firstSets, followSets) ==
    IF ks = <<>> THEN [firstSets |-> firstSets, followSets |-> followSets]
    ELSE LET production == grammar[Head(ks)]
             r == FollowOfRhs(symbol, production,
                              IndexOf(getRHS(production), symbol),
                              firstSets, followSets)
         IN  FollowOfProductions(symbol, Tail(ks), r.firstSets, r.followSets)

\* while (true), with followIndex the (0-based) index after the symbol.  At
\* the end of the RHS the source calls followOf(LHS, followSets, firstSets):
\* the callee receives the two objects in each other's parameter.
FollowOfRhs(symbol, production, followIndex, firstSets, followSets) ==
    LET RHS == getRHS(production)
    IN  IF followIndex = Len(RHS)
        THEN LET LHS == getLHS(production)
             IN  IF LHS # symbol
                 THEN LET r == followOf(LHS, followSets, firstSets)
                          returned == r.followSets[LHS]
                      IN  [firstSets  |-> r.followSets,
                           followSets |-> Put(r.firstSets, symbol,
                                              merge(r.firstSets[symbol], returned, {}))]
                 ELSE [firstSets |-> firstSets, followSets |-> followSets]
        ELSE LET followSymbol == <<RHS[followIndex + 1]>>
                 after == firstOf(followSymbol, firstSets)
                 firstOfFollow == after[followSymbol]
             IN  IF EPSILON \notin firstOfFollow
                 THEN [firstSets  |-> after,
                       followSets |-> Put(followSets, symbol,
                                          merge(followSets[symbol], firstOfFollow, {}))]
                 ELSE FollowOfRhs(symbol, production, followIndex + 1, after,
                          Put(followSets, symbol,
                              merge(followSets[symbol], firstOfFollow, {EPSILON})))

\* Example 1 (lines 251-257) and example 2 (lines 291-302).
Grammar1 ==
    1 :> <<"S", " ", "-", ">", " ", "F">>
        @@ 2 :> <<"S", " ", "-", ">", " ", "(", "S", " ", "+", " ", "F", ")">>
        @@ 3 :> <<"F", " ", "-", ">", " ", "a">>

Grammar2 ==
    1 :> <<"E", " ", "-", ">", " ", "T", "X">>
        @@ 2 :> <<"X", " ", "-", ">", " ", "+", "T", "X">>
        @@ 3 :> <<"X", " ", "-", ">", " ", "U+03B5">>
        @@ 4 :> <<"T", " ", "-", ">", " ", "F", "Y">>
        @@ 5 :> <<"Y", " ", "-", ">", " ", "*", "F", "Y">>
        @@ 6 :> <<"Y", " ", "-", ">", " ", "U+03B5">>
        @@ 7 :> <<"F", " ", "-", ">", " ", "a">>
        @@ 8 :> <<"F", " ", "-", ">", " ", "(", "E", ")">>

\* A grammar object with the productions of g under the keys K.
Restrict(g, K) == [k \in K |-> g[k]]

\* The grammars analysed: each example and each part of one, under its
\* start symbol.
FFInputs ==
    {[grammar |-> Restrict(Grammar1, K), START_SYMBOL |-> <<"S">>] :
         K \in SUBSET (DOMAIN Grammar1) \ {{}}}
    \cup {[grammar |-> Restrict(Grammar2, K), START_SYMBOL |-> <<"E">>] :
         K \in SUBSET (DOMAIN Grammar2) \ {{}}}

\* buildFollowSets(grammar, [buildFirstSets(grammar, [{}]), {}]) (line 263)
\* is about to run buildSet(firstOf, grammar, [{}], 0).
InitFirstFollow ==
    /\ \E in \in FFInputs :
           sets = [grammar |-> in.grammar, START_SYMBOL |-> in.START_SYMBOL,
                   pc |-> "first", keys |-> SortedKeys(DOMAIN in.grammar),
                   firstSets |-> <<>>, followSets |-> <<>>]
    /\ LROff
    /\ compiler = Off /\ printer = Off /\ table = Off /\ traverse = Off

\* buildSet(firstOf, ...): builder(grammar[k][0], ...Sets) for the next k.
BuildFirstStep ==
    /\ sets.pc = "first"
    /\ sets.keys # <<>>
    /\ sets' = [sets EXCEPT
                   !.firstSets = firstOf(<<grammar[Head(sets.keys)][1]>>, sets.firstSets),
                   !.keys = Tail(sets.keys)]
    /\ UNCHANGED <<lrVars, compiler, printer, table, traverse>>

\* buildSet returns Sets[0]; buildSet(followOf, ...) starts with it and {}.
BuildFirstReturn ==
    /\ sets.pc = "first"
    /\ sets.keys = <<>>
    /\ sets' = [sets EXCEPT !.pc = "follow", !.keys = SortedKeys(DOMAIN grammar)]
    /\ UNCHANGED <<lrVars, compiler, printer, table, traverse>>

\* buildSet(followOf, ...): builder(grammar[k][0], ...Sets) for the next k.
BuildFollowStep ==
    /\ sets.pc = "follow"
    /\ sets.keys # <<>>
    /\ LET r == followOf(<<grammar[Head(sets.keys)][1]>>, sets.firstSets,
                         sets.followSets)
       IN  sets' = [sets EXCEPT !.firstSets = r.firstSets,
                                !.followSets = r.followSets,
                                !.keys = Tail(sets.keys)]
    /\ UNCHANGED <<lrVars, compiler, printer, table, traverse>>

\* buildSet returns Sets[1], the follow sets.
BuildFollowReturn ==
    /\ sets.pc = "follow"
    /\ sets.keys = <<>>
    /\ sets' = [sets EXCEPT !.pc = "done"]
    /\ UNCHANGED <<lrVars, compiler, printer, table, traverse>>

NextFirstFollow ==
    \/ BuildFirstStep
    \/ BuildFirstReturn
    \/ BuildFollowStep
    \/ BuildFollowReturn

SpecFirstFollow == InitFirstFollow /\ [][NextFirstFollow]_vars


\* ------------------------------------------------------------------------
\* src/unnamed/part_000, lines 118-271: the AST printer
\* ------------------------------------------------------------------------

\* An AST node is an array [typeTag, lhs, rhs] or a simple value; the simple
\* value v is held as <<v>>, so that Array.isArray(node) is Len(node) = 3.
isArray(node) == Len(node) = 3

\* The type-tags of the printer object (lines 186-191).
Ops == {"+", "-", "*", "/"}

\* var precedence (lines 209-214)
precedence(op) == IF op \in {"+", "-"} THEN 0 ELSE 1

\* Binary nodes in an AST.
MaxOps == 3

\* The ASTs with exactly n binary nodes, over the simple value 2.
RECURSIVE AstsOfSize(_)
AstsOfSize(n) ==
    IF n = 0 THEN {<<"2">>}
    ELSE UNION {{<<op, lhs, rhs>> :
                    op \in Ops, lhs \in AstsOfSize(i), rhs \in AstsOfSize(n - 1 - i)} :
                i \in 0..(n - 1)}

Asts == UNION {AstsOfSize(n) : n \in 0..MaxOps}

\* _compile (lines 173-179) and binary (lines 233-254) on the globals
\* g = [output, prevBinaryOp]: the globals afterwards.  output is the array
\* of pushed strings.
RECURSIVE compileNode(_, _)
compileNode(node, g) ==
    IF ~isArray(node)
    THEN [g EXCEPT !.output = Append(@, <<node[1]>>)]
    ELSE LET op  == node[1]
             shouldPrintParens ==
                 /\ g.prevBinaryOp # "undefined"
                 /\ precedence(g.prevBinaryOp) > precedence(op)
             g1 == [output |-> IF shouldPrintParens THEN Append(g.output, <<"(">>)
                               ELSE g.output,
                    prevBinaryOp |-> op]
             g2 == compileNode(node[2], g1)
             g3 == compileNode(node[3],
                               [g2 EXCEPT !.output = Append(@, <<" ", op, " ">>)])
         IN  IF shouldPrintParens THEN [g3 EXCEPT !.output = Append(@, <<")">>)]
             ELSE g3

\* The script is about to call compile(ast) for the first time:
\* prevBinaryOp is still undefined.
InitPrinter ==
    /\ \E ast \in Asts :
           printer = [pc |-> "compile", ast |-> ast, output |-> <<>>,
                      prevBinaryOp |-> "undefined", printed |-> <<>>]
    /\ LROff
    /\ compiler = Off /\ sets = Off /\ table = Off /\ traverse = Off

\* compile(ast): output = []; _compile(ast); console.log(output.join('')).
Compile ==
    /\ printer.pc = "compile"
    /\ LET g == compileNode(printer.ast,
                            [output |-> <<>>, prevBinaryOp |-> printer.prevBinaryOp])
       IN  printer' = [printer EXCEPT !.pc = "done",
                                      !.output = g.output,
                                      !.prevBinaryOp = g.prevBinaryOp,
                                      !.printed = Join(g.output, <<>>)]
    /\ UNCHANGED <<lrVars, compiler, sets, table, traverse>>

NextPrinter == Compile

SpecPrinter == InitPrinter /\ [][NextPrinter]_vars


\* Binary nodes in each AST when compile is called twice.
MaxOpsRepeated == 2

RepeatedAsts == UNION {AstsOfSize(n) : n \in 0..MaxOpsRepeated}

\* The script is about to call compile for the first of two times.
InitPrinterRepeated ==
    /\ \E ast \in RepeatedAsts :
           printer = [pc |-> "compile", ast |-> ast, output |-> <<>>,
                      prevBinaryOp |-> "undefined", printed |-> <<>>]
    /\ LROff
    /\ compiler = Off /\ sets = Off /\ table = Off /\ traverse = Off

\* A further compile(ast) after the first has returned: output is reset,
\* prevBinaryOp is the global as the call before left it.
CompileAgain ==
    /\ printer.pc = "done"
    /\ \E ast \in RepeatedAsts :
           LET g == compileNode(ast, [output |-> <<>>,
                                      prevBinaryOp |-> printer.prevBinaryOp])
           IN  printer' = [pc |-> "doneAgain", ast |-> ast,
                           output |-> g.output,
                           prevBinaryOp |-> g.prevBinaryOp,
                           printed |-> Join(g.output, <<>>)]
    /\ UNCHANGED <<lrVars, compiler, sets, table, traverse>>

NextPrinterRepeated == Compile \/ CompileAgain

SpecPrinterRepeated == InitPrinterRepeated /\ [][NextPrinterRepeated]_vars

\* ------------------------------------------------------------------------
\* src/parser/ParserTable.js: the LL(1) parsing table
\* ------------------------------------------------------------------------

\* Here firstSets and followSets are objects from symbols to arrays of
\* terminals, and parsingTable is an object from non-terminals to objects
\* from terminals to production numbers.  getLHS and getRHS (lines 96-105)
\* are the functions of the same name and text defined above.

\* The elements of an array.
Elements(array) == {array[n] : n \in 1..Len(array)}

\* obj[key] where the result is used as an array: the array, or undefined.
Lookup(obj, key) ==
    IF key \in DOMAIN obj THEN [defined |-> TRUE, array |-> obj[key]]
    ELSE [defined |-> FALSE, array |-> <<>>]

\* getFirstSetOfRHS that reads the second symbol of the RHS.
getFirstSetOfRHSSecond(RHS, firstSets) ==
    IF Len(RHS) < 2 THEN [defined |-> FALSE, array |-> <<>>]
    ELSE Lookup(firstSets, <<RHS[2]>>)

\* getFirstSetOfRHS (lines 110-126): firstSets[RHS[0]].
getFirstSetOfRHS(RHS, firstSets) ==
    IF RHS = <<>> THEN [defined |-> FALSE, array |-> <<>>]
    ELSE Lookup(firstSets, <<RHS[1]>>)

\* The row of the table with productionNumber put under each terminal.
RowWith(row, terminals, productionNumber) ==
    [terminal \in DOMAIN row \cup Elements(terminals) |->
        IF terminal \in Elements(terminals) THEN productionNumber ELSE row[terminal]]

\* The body of `for (let k in grammar)` in buildParsingTable (lines 64-88)
\* for production k of t.grammar: ok = FALSE is the TypeError of calling
\* forEach on undefined (the row has been initialised by then).
TableStep(t, k) ==
    LET production == t.grammar[k]
        LHS == getLHS(production)
        RHS == getRHS(production)
        withRow == IF LHS \in DOMAIN t.parsingTable THEN t.parsingTable
                   ELSE Put(t.parsingTable, LHS, <<>>)
        terminals == IF RHS # EPSILON THEN getFirstSetOfRHS(RHS, t.firstSets)
                     ELSE Lookup(t.followSets, LHS)
    IN  IF ~terminals.defined
        THEN [ok |-> FALSE, parsingTable |-> withRow]
        ELSE [ok |-> TRUE,
              parsingTable |-> Put(withRow, LHS, RowWith(withRow[LHS], terminals.array, k))]

\* Example 1 (lines 137-156) and example 2 (lines 178-210).
grammar_1 ==
    1 :> <<"S", " ", "-", ">", " ", "F">>
        @@ 2 :> <<"S", " ", "-", ">", " ", "(", "S", " ", "+", " ", "F", ")">>
        @@ 3 :> <<"F", " ", "-", ">", " ", "a">>

firstSets_1 ==
    <<"S">> :> <<<<"a">>, <<"(">>>>
        @@ <<"F">> :> <<<<"a">>>>
        @@ <<"a">> :> <<<<"a">>>>
        @@ <<"(">> :> <<<<"(">>>>

followSets_1 ==
    <<"S">> :> <<<<"$">>, <<"+">>>>
        @@ <<"F">> :> <<<<"$">>, <<"+">>, <<")">>>>

grammar_2 ==
    1 :> <<"E", " ", "-", ">", " ", "T", "X">>
        @@ 2 :> <<"X", " ", "-", ">", " ", "+", "T", "X">>
        @@ 3 :> <<"X", " ", "-", ">", " ", "U+03B5">>
        @@ 4 :> <<"T", " ", "-", ">", " ", "F", "Y">>
        @@ 5 :> <<"Y", " ", "-", ">", " ", "*", "F", "Y">>
        @@ 6 :> <<"Y", " ", "-", ">", " ", "U+03B5">>
        @@ 7 :> <<"F", " ", "-", ">", " ", "a">>
        @@ 8 :> <<"F", " ", "-", ">", " ", "(", "E", ")">>

firstSets_2 ==
    <<"E">> :> <<<<"a">>, <<"(">>>>
        @@ <<"T">> :> <<<<"a">>, <<"(">>>>
        @@ <<"F">> :> <<<<"a">>, <<"(">>>>
        @@ <<"a">> :> <<<<"a">>>>
        @@ <<"(">> :> <<<<"(">>>>
        @@ <<"X">> :> <<<<"+">>, <<"U+03B5">>>>
        @@ <<"+">> :> <<<<"+">>>>
        @@ <<"Y">> :> <<<<"*">>, <<"U+03B5">>>>
        @@ <<"*">> :> <<<<"*">>>>

followSets_2 ==
    <<"E">> :> <<<<"$">>, <<")">>>>
        @@ <<"X">> :> <<<<"$">>, <<")">>>>
        @@ <<"T">> :> <<<<"+">>, <<"$">>, <<")">>>>
        @@ <<"Y">> :> <<<<"+">>, <<"$">>, <<")">>>>
        @@ <<"F">> :> <<<<"*">>, <<"+">>, <<"$">>, <<")">>>>

\* Example 1 with a second production for the column 'a' of S.
grammar_1a == grammar_1 @@ (4 :> <<"S", " ", "-", ">", " ", "a">>)

\* The calls made: each example, each part of one, and the parts of example
\* 1 extended, with the example's First and Follow sets.
TableInputs ==
    {[grammar |-> Restrict(grammar_1a, K), firstSets |-> firstSets_1,
      followSets |-> followSets_1] : K \in SUBSET (DOMAIN grammar_1a) \ {{}}}
    \cup {[grammar |-> Restrict(grammar_2, K), firstSets |-> firstSets_2,
           followSets |-> followSets_2] : K \in SUBSET (DOMAIN grammar_2) \ {{}}}

\* buildParsingTable(grammar, firstSets, followSets) has set parsingTable = {}.
InitTable ==
    /\ \E in \in TableInputs :
           table = [pc |-> "loop", grammar |-> in.grammar, firstSets |-> in.firstSets,
                    followSets |-> in.followSets, parsingTable |-> <<>>,
                    keys |-> SortedKeys(DOMAIN in.grammar)]
    /\ LROff
    /\ compiler = Off /\ sets = Off /\ printer = Off /\ traverse = Off

\* One iteration of `for (let k in grammar)`.
BuildParsingTableStep ==
    /\ table.pc = "loop"
    /\ table.keys # <<>>
    /\ LET r == TableStep(table, Head(table.keys))
       IN  table' = [table EXCEPT !.parsingTable = r.parsingTable,
                                  !.keys = IF r.ok THEN Tail(table.keys) ELSE table.keys,
                                  !.pc = IF r.ok THEN "loop" ELSE "TypeError"]
    /\ UNCHANGED <<lrVars, compiler, sets, printer, traverse>>

\* return parsingTable
BuildParsingTableReturn ==
    /\ table.pc = "loop"
    /\ table.keys = <<>>
    /\ table' = [table EXCEPT !.pc = "done"]
    /\ UNCHANGED <<lrVars, compiler, sets, printer, traverse>>

NextTable ==
    \/ BuildParsingTableStep
    \/ BuildParsingTableReturn

SpecTable == InitTable /\ [][NextTable]_vars


\* ------------------------------------------------------------------------
\* src/unnamed/part_000, lines 1-116: in-order tree traversals
\* ------------------------------------------------------------------------

\* A tree node {value, left, right} is held as <<value, left, right>>; the
\* empty subtree '' (falsy) is <<>>.
EmptyTree == <<>>

valueOf(node) == node[1]

left(node) == node[2]

right(node) == node[3]

\* Nodes in a tree.
MaxNodes == 4

\* The trees of exactly n nodes whose values, read in-order, are
\* lo, lo + 1, ..., lo + n - 1.
RECURSIVE TreesOf(_, _)
TreesOf(lo, n) ==
    IF n = 0 THEN {EmptyTree}
    ELSE UNION {{<<lo + i, l, r>> :
                    l \in TreesOf(lo, i), r \in TreesOf(lo + i + 1, n - 1 - i)} :
                i \in 0..(n - 1)}

Trees == UNION {TreesOf(1, n) : n \in 0..MaxNodes}

\* function* inOrder(node): the values it yields, in order.
RECURSIVE inOrder(_)
inOrder(node) ==
    IF node = EmptyTree THEN <<>>
    ELSE inOrder(left(node)) \o <<valueOf(node)>> \o inOrder(right(node))

\* while (currNode) { controlStack.push(currNode); currNode = currNode.left }
\* : the nodes pushed, in order.
RECURSIVE LeftSpine(_)
LeftSpine(currNode) ==
    IF currNode = EmptyTree THEN <<>>
    ELSE <<currNode>> \o LeftSpine(left(currNode))

\* The values that successive next() calls of makeTreeIterator return before
\* {done: true}, from the control stack given.
RECURSIVE NextValues(_)
NextValues(controlStack) ==
    IF controlStack = <<>> THEN <<>>
    ELSE LET top  == controlStack[Len(controlStack)]
             rest == SubSeq(controlStack, 1, Len(controlStack) - 1)
         IN  <<valueOf(top)>> \o NextValues(rest \o LeftSpine(right(top)))

\* makeTreeIterator(node), iterated to the end.
makeTreeIterator(node) == NextValues(LeftSpine(node))

\* inorder_tarverse_nonrecursive(node, condition, result) has been called:
\* stack is empty; applied lists the values of the nodes condition has been
\* called with ("undefined" for a call with undefined).
InitTraverse ==
    /\ \E tree \in Trees :
           traverse = [pc |-> "push", tree |-> tree, node |-> tree, stack |-> <<>>,
                       applied |-> <<>>]
    /\ LROff
    /\ compiler = Off /\ sets = Off /\ printer = Off /\ table = Off

\* while (node) { stack.push(node); node = node.left; }
PushLeftNodes ==
    /\ traverse.pc = "push"
    /\ traverse' = [traverse EXCEPT !.stack = @ \o LeftSpine(traverse.node),
                                    !.node = EmptyTree,
                                    !.pc = "pop"]
    /\ UNCHANGED <<lrVars, compiler, sets, printer, table>>

\* One iteration of the inner while (true): pop, apply the condition, go to
\* the right child or on to the parent.  With an empty stack pop() gives
\* undefined and top.right throws a TypeError.
PopNode ==
    /\ traverse.pc = "pop"
    /\ LET stk  == traverse.stack
           top  == stk[Len(stk)]
           rest == SubSeq(stk, 1, Len(stk) - 1)
       IN  traverse' =
               IF stk = <<>>
               THEN [traverse EXCEPT !.applied = Append(@, "undefined"),
                                     !.pc = "TypeError"]
               ELSE IF right(top) # EmptyTree
               THEN [traverse EXCEPT !.stack = rest,
                                     !.applied = Append(@, valueOf(top)),
                                     !.node = right(top),
                                     !.pc = "check"]
               ELSE [traverse EXCEPT !.stack = rest,
                                     !.applied = Append(@, valueOf(top)),
                                     !.pc = IF rest = <<>> THEN "check" ELSE "pop"]
    /\ UNCHANGED <<lrVars, compiler, sets, printer, table>>

\* if (stack.length === 0) break; otherwise the outer loop goes round.
CheckStack ==
    /\ traverse.pc = "check"
    /\ traverse' = [traverse EXCEPT !.pc = IF traverse.stack = <<>> THEN "done"
                                           ELSE "push"]
    /\ UNCHANGED <<lrVars, compiler, sets, printer, table>>

NextTraverse == PushLeftNodes \/ PopNode \/ CheckStack

SpecTraverse == InitTraverse /\ [][NextTraverse]_vars

\* ------------------------------------------------------------------------
\* Reading the graph
\* ------------------------------------------------------------------------

ItemIds == 1..Len(items)

ClosureIds == 1..Len(closures)

\* The items of a closure, as a set.
ItemsOf(c) == {closures[c].items[n] : n \in 1..Len(closures[c].items)}

\* The items a closure added by expansion (all but the kernel at index 1).
AddedOf(c) == {closures[c].items[n] : n \in 2..Len(closures[c].items)}

\* getKernel() of the Closure an item's goto() returns.
GotoKernel(i) == closures[items[i].gotoPointer].kernelItem

\* _build is running inside the constructor of closure c.
UnderConstruction(c) ==
    \E n \in 1..Len(stack) : stack[n].op = "build" /\ stack[n].obj = c

\* Some item holds closure c as its closure or as its goto target.
Referenced(c) ==
    \E i \in ItemIds : items[i].closure = c \/ items[i].gotoPointer = c

\* The constructor of closure c has returned (a constructor abandoned by an
\* error leaves an object nothing refers to).
Constructed(c) ==
    /\ ~UnderConstruction(c)
    /\ status \in {"idle", "running"} \/ Referenced(c)

\* The closures reachable from the closures of S by at most n goto edges.
RECURSIVE ReachN(_, _)
ReachN(S, n) ==
    LET more == S \cup {items[i].gotoPointer :
                          i \in {j \in UNION {ItemsOf(c) : c \in S} :
                                   items[j].gotoPointer # Null}}
    IN  IF n = 0 \/ more = S THEN S ELSE ReachN(more, n - 1)

\* The closure of the root item of the (first) grammar, null before closure().
RootClosure == items[kernelItem[1]].closure

\* The closures reachable from the root closure through goto edges.
Reachable == IF RootClosure = Null THEN {} ELSE ReachN({RootClosure}, Len(closures))

\* Every non-final item of every reachable closure has its goto target.
GraphComplete ==
    /\ RootClosure # Null
    /\ \A i \in ItemsOf(RootClosure) : isFinal(items[i]) \/ isConnected(items[i])
    /\ \A c \in Reachable : \A i \in ItemsOf(c) :
           isFinal(items[i]) \/ isConnected(items[i])

\* kernelItem.closure().goto() has just returned.
BuildReturned ==
    /\ Idle
    /\ RootClosure # Null
    /\ ret.op = "cgoto"
    /\ ret.obj = RootClosure

\* "LHS -> RHS •": the text of an item whose dot is at the end.
FinalText(production) ==
    TemplateStr(production.LHS) \o <<" ", "-", ">", " ">>
        \o Join(Append(production.RHS, Bullet), <<" ">>)

\* The kernel reached from item i by n times goto().getKernel(); Null when a
\* goto target on the way is missing.
RECURSIVE KernelAfter(_, _)
KernelAfter(i, n) ==
    IF n = 0 THEN i
    ELSE IF items[i].gotoPointer = Null THEN Null
    ELSE KernelAfter(GotoKernel(i), n - 1)


\* ------------------------------------------------------------------------
\* Properties
\* ------------------------------------------------------------------------

\* C1: for every finite grammar, left-recursive ones included, closure() and
\* goto() on the root item complete: no call of the construction exhausts
\* the call stack.
C1_ConstructionCompletes == status # "RangeError"

\* C2: two closures that each add the dot-0 item of the same production hold
\* the same item object, the one the registry stores under its key; and no
\* production has two distinct items advanced to dot 1, i.e. goto builds one
\* target for the shared item, whichever closure it is read from.
C2_SharingInvariant ==
    /\ \A c1, c2 \in ClosureIds : \A i1 \in AddedOf(c1), i2 \in AddedOf(c2) :
           items[i1].production = items[i2].production => i1 = i2
    /\ \A c \in ClosureIds : \A i \in AddedOf(c) :
           /\ items[i].dotPosition = 0
           /\ Registered(serialize(items[i]))
           /\ LRItemsRegistry[serialize(items[i])] = i
    /\ \A a, b \in ItemIds :
           (a # b /\ items[a].dotPosition = 1 /\ items[b].dotPosition = 1)
               => items[a].production # items[b].production

\* Two distinct closures added the same item, and its goto target is built.
C2_Witness ==
    /\ Idle
    /\ \E c1, c2 \in ClosureIds :
           /\ c1 # c2
           /\ \E i \in AddedOf(c1) \cap AddedOf(c2) : items[i].gotoPointer # Null

\* C3: a goto() call on the item the previous call was goto() on returns at
\* once with the same value, and changes no item (so no goto pointer), no
\* closure and no registry entry.
C3_GotoIdempotent ==
    [][\A i \in ItemIds :
          (Idle /\ ret.op = "goto" /\ ret.obj = i /\ CallGoto(i))
              => /\ status' = "idle" /\ stack' = <<>>
                 /\ ret'.op = "goto" /\ ret'.obj = i /\ ret'.value = ret.value
                 /\ ret'.value = items'[i].gotoPointer
                 /\ UNCHANGED <<grammars, items, closures, LRItemsRegistry>>]_vars

\* goto() was called twice in a row on a non-final item and returned its
\* Closure.
C3_Witness ==
    /\ Idle
    /\ ret.op = "goto" /\ ret.again
    /\ ret.value # Null
    /\ ~isFinal(items[ret.obj])

\* The registry item of each production of the closure's grammar whose LHS is
\* the symbol at the dot of item i is in closure c.
ExpansionIn(c, i) ==
    LET g == grammars[closures[c].grammar]
    IN  \A k \in ProductionNumbers(g) :
            getProduction(g, k).LHS = getCurrentSymbol(items[i])
                => /\ Registered(keyForItem(getProduction(g, k), 0))
                   /\ LRItemsRegistry[keyForItem(getProduction(g, k), 0)] \in ItemsOf(c)

\* C4: in every constructed Closure, every item (kernel or added) whose dot
\* is before a non-terminal has the registry dot-0 items of all productions of
\* that non-terminal in the same item sequence.
C4_ClosedUnderExpansion ==
    \A c \in ClosureIds :
        Constructed(c) =>
            \A i \in ItemsOf(c) : shouldClosure(items[i]) => ExpansionIn(c, i)

\* A constructed closure holds an added item that was itself expanded: an
\* added item before a non-terminal, and three items or more after the kernel.
C4_Witness ==
    \E c \in ClosureIds :
        /\ Constructed(c)
        /\ Len(closures[c].items) >= 4
        /\ \E i \in AddedOf(c) :
               /\ shouldClosure(items[i])
               /\ getProductionsForSymbol(grammars[closures[c].grammar],
                                          getCurrentSymbol(items[i])) # <<>>


\* A step that creates or changes an item or a closure.
HeapChanges == items' # items \/ closures' # closures

\* C5: when kernelItem.closure().goto() has returned, every non-final item of
\* every closure reachable from the root closure has its goto target; no
\* later step makes that complete graph incomplete; and no goto() call on an
\* item of a reachable closure of the complete graph builds anything (it
\* returns at once, leaving items, closures and registry as they are).
C5_EagerConstruction ==
    [][/\ BuildReturned' => GraphComplete'
       /\ ~(HeapChanges /\ GraphComplete /\ ~GraphComplete')
       /\ \A i \in ItemIds :
              ~(/\ Idle
                /\ CallGoto(i)
                /\ status' # "idle" \/ HeapChanges \/ LRItemsRegistry' # LRItemsRegistry
                /\ GraphComplete
                /\ i \in UNION {ItemsOf(c) : c \in Reachable})]_vars

\* closure().goto() on the root has returned, the graph has five closures or
\* more, and a later goto() on a non-final item of a reachable closure
\* returned its cached target.
C5_Witness ==
    /\ Idle
    /\ ret.op = "goto" /\ ret.value # Null
    /\ GraphComplete
    /\ Cardinality(Reachable) >= 5
    /\ ret.obj \in UNION {ItemsOf(c) : c \in Reachable}

\* The example grammar of the source has been loaded as the first grammar.
IsExample == grammars[1].originalBnf = ExampleText

\* C6: for the example grammar, after closure().goto() on the root item, the
\* kernel of the goto target of the root closure's kernel reads "S' -> S •",
\* and from the second item of the root closure goto, then goto of that
\* target's kernel, leads to the kernel "S -> A A •".
C6_ExampleTrace ==
    (BuildReturned /\ IsExample) =>
        LET root   == closures[RootClosure].kernelItem
            second == closures[RootClosure].items[2]
        IN  /\ KernelAfter(root, 1) # Null
            /\ serialize(items[KernelAfter(root, 1)]) = <<"S", "'", " ", "-", ">", " ", "S", " ", "U+2022">>
            /\ serialize(items[second]) = <<"S", " ", "-", ">", " ", "U+2022", " ", "A", " ", "A">>
            /\ KernelAfter(second, 2) # Null
            /\ serialize(items[KernelAfter(second, 2)]) = <<"S", " ", "-", ">", " ", "A", " ", "A", " ", "U+2022">>

\* The example graph is built and the second trace ends in a final kernel.
C6_Witness ==
    /\ BuildReturned /\ IsExample
    /\ KernelAfter(closures[RootClosure].items[2], 2) # Null
    /\ isFinal(items[KernelAfter(closures[RootClosure].items[2], 2)])

\* C7: the goto target cached on an item has a kernel over the same
\* production and grammar with the dot one further; goto() on a non-final
\* item returns that cached Closure; and from a dot-0 item with its target
\* built, as many goto/kernel steps as the RHS is long lead to a final kernel
\* that reads "LHS -> RHS •".
C7_GotoAdvancesKernel ==
    /\ \A i \in ItemIds :
           isConnected(items[i]) =>
               /\ items[GotoKernel(i)].production = items[i].production
               /\ items[GotoKernel(i)].grammar = items[i].grammar
               /\ items[GotoKernel(i)].dotPosition = items[i].dotPosition + 1
    /\ (Idle /\ ret.op = "goto") =>
           /\ ret.value = items[ret.obj].gotoPointer
           /\ ~isFinal(items[ret.obj]) => ret.value # Null
    /\ Idle =>
           \A i \in ItemIds :
               (items[i].dotPosition = 0 /\ isConnected(items[i])) =>
                   LET last == KernelAfter(i, Len(productionOf(items[i]).RHS))
                   IN  /\ last # Null
                       /\ isFinal(items[last])
                       /\ serialize(items[last]) = FinalText(productionOf(items[i]))

\* goto() on a dot-0 item of a two-symbol production returned its target and
\* the chain of kernels ends two steps on.
C7_Witness ==
    /\ Idle
    /\ ret.op = "goto" /\ ret.value # Null
    /\ items[ret.obj].dotPosition = 0
    /\ Len(productionOf(items[ret.obj]).RHS) = 2
    /\ KernelAfter(ret.obj, 2) # Null
    /\ items[KernelAfter(ret.obj, 2)].dotPosition = 2

\* "S' -> • S" for the start symbol S.
AugmentedText(S) == S \o <<"'", " ", "-", ">", " ">> \o Bullet \o <<" ">> \o S

\* C8: the item built from getAugmentedProduction() at dot 0 serializes to
\* "S' -> • S", S being the LHS of the first supplied production.
C8_AugmentedItemText ==
    \A n \in 1..Len(kernelItem) :
        LET g == grammars[items[kernelItem[n]].grammar]
        IN  /\ g.startSymbol = getProduction(g, 1).LHS
            /\ items[kernelItem[n]].dotPosition = 0
            /\ serialize(items[kernelItem[n]]) = AugmentedText(g.startSymbol)

\* The root item of the grammar that starts with E reads "E' -> • E".
C8_Witness ==
    /\ grammars[1].startSymbol = <<"E">>
    /\ serialize(items[kernelItem[1]]) = <<"E", "'", " ", "-", ">", " ", "U+2022", " ", "E">>

\* C9: every item in a closure of a later grammar refers to a production and
\* Grammar of that grammar, and its goto target, if any, was built after that
\* grammar's root item was created.
C9_RegistryScopedToSession ==
    \A n \in 2..Len(kernelItem) : \A c \in ClosureIds :
        closures[c].grammar = n =>
            \A i \in ItemsOf(c) :
                /\ items[i].grammar = n
                /\ items[i].production.grammar = n
                /\ isConnected(items[i]) => GotoKernel(i) >= kernelItem[n]

\* C10: advance() is never invoked on a final item: no call ends with the
\* Error advance() throws.
C10_AdvanceNeverOnFinal == status # "ItemFinalError"

\* goto() was called on a final item and returned nothing, and goto() has
\* advanced items elsewhere.
C10_Witness ==
    /\ Idle
    /\ ret.op = "goto" /\ ret.value = Null
    /\ isFinal(items[ret.obj])
    /\ \E i \in ItemIds : isConnected(items[i])

\* The items that refer to a Production (all but a root item built over the
\* null augmented production of an empty grammar).
ProperItems == {i \in ItemIds : items[i].production # NullProduction}

Unsplittable(line) ==
    IndexOf(line, <<"-", ">">>) = 0 /\ IndexOf(line, <<"|">>) = 0

C13_EmptyGrammarRejected ==
    \A g \in 1..Len(grammars) : grammars[g].hasAugmented

\* The raw line has no text after its '->'.
NoRhsText(raw) ==
    LET t == TrimRight(raw)
    IN  Len(t) >= 2 /\ t[Len(t) - 1] = "-" /\ t[Len(t)] = ">"

\* The productions of the Grammar objects on the heap.
AllProductions ==
    UNION {{grammars[g].bnf[n] : n \in 1..Len(grammars[g].bnf)} :
             g \in 1..Len(grammars)}

\* C14: every Production has at least one RHS symbol; a production with no
\* text after '->' has the RHS <<epsilon>>; an item over a production with
\* that RHS is final exactly at dot 1 (not at dot 0), and none has a dot
\* beyond 1.
C14_EpsilonProduction ==
    /\ \A production \in AllProductions :
           /\ Len(production.RHS) >= 1
           /\ NoRhsText(production.raw) => production.RHS = <<EPSILON>>
    /\ \A i \in ProperItems :
           productionOf(items[i]).RHS = <<EPSILON>> =>
               /\ items[i].dotPosition \in {0, 1}
               /\ isFinal(items[i]) <=> items[i].dotPosition = 1

\* A grammar with the line "A ->" has been loaded and an item over its
\* epsilon production has been advanced to dot 1.
C14_Witness ==
    /\ \E production \in AllProductions : NoRhsText(production.raw)
    /\ \E i \in ProperItems :
           /\ NoRhsText(productionOf(items[i]).raw)
           /\ items[i].dotPosition = 1

\* The sentences of the grammar S -> s A d, A -> a b | c.
Sentences == {<<"s", "a", "b", "d">>, <<"s", "c", "d">>}

\* C15: run() of the backtracking parser returns true exactly for the
\* sentences of S -> s A d, A -> a b | c, and false for every other input.
C15_AcceptsExactlySentences ==
    compiler.pc = "done" => (compiler.returned <=> compiler.input \in Sentences)

\* Follow(A) is in Follow(B) for every production A -> alpha B of the grammar
\* whose RHS ends in the non-terminal B, A # B.
FollowRule(followSets) ==
    \A k \in DOMAIN grammar :
        LET A == getLHS(grammar[k])
            RHS == getRHS(grammar[k])
            B == <<RHS[Len(RHS)]>>
        IN  (~ffIsTerminal(B) /\ B # A) =>
                /\ A \in DOMAIN followSets
                /\ B \in DOMAIN followSets
                /\ followSets[A] \subseteq followSets[B]

\* C16: the follow sets buildFollowSets returns contain Follow(A) in
\* Follow(B) for every production A -> alpha B ending in the non-terminal B
\* (A # B); for example 1 they are Follow(S) = {$, +}, Follow(F) = {$, +, )}.
C16_FollowSets ==
    sets.pc = "done" =>
        /\ FollowRule(sets.followSets)
        /\ sets.grammar = Grammar1 =>
               /\ sets.followSets[<<"S">>] = {Dollar, <<"+">>}
               /\ sets.followSets[<<"F">>] = {Dollar, <<"+">>, <<")">>}

\* The text of a node inside a binary node with operator parentOp
\* ("undefined" at the top): parentheses exactly around a binary node whose
\* operator has strictly lower precedence than parentOp.
RECURSIVE Parenthesized(_, _)
Parenthesized(node, parentOp) ==
    IF ~isArray(node) THEN <<node[1]>>
    ELSE LET text == Parenthesized(node[2], node[1]) \o <<" ", node[1], " ">>
                         \o Parenthesized(node[3], node[1])
         IN  IF parentOp # "undefined" /\ precedence(node[1]) < precedence(parentOp)
             THEN <<"(">> \o text \o <<")">>
             ELSE text

\* C17: compile(ast) prints every binary sub-expression in parentheses
\* exactly when its operator has strictly lower precedence than the operator
\* of the binary node that directly contains it.
C17_ParensByParentPrecedence ==
    printer.pc = "done" => printer.printed = Parenthesized(printer.ast, "undefined")

\* The documented results (lines 160-163 and 214-220).
DocumentedTable1 ==
    <<"S">> :> (<<"a">> :> 1 @@ <<"(">> :> 2)
        @@ <<"F">> :> (<<"a">> :> 3)

DocumentedTable2 ==
    <<"E">> :> (<<"a">> :> 1 @@ <<"(">> :> 1)
        @@ <<"X">> :> (<<"+">> :> 2 @@ <<"$">> :> 3 @@ <<")">> :> 3)
        @@ <<"T">> :> (<<"a">> :> 4 @@ <<"(">> :> 4)
        @@ <<"Y">> :> (<<"*">> :> 5 @@ <<"+">> :> 6 @@ <<"$">> :> 6 @@ <<")">> :> 6)
        @@ <<"F">> :> (<<"a">> :> 7 @@ <<"(">> :> 8)

\* The columns the rules name for production k: the terminals listed in the
\* First set of the first RHS symbol, or in Follow(LHS) when the RHS is
\* epsilon.
Columns(k) ==
    LET LHS == getLHS(table.grammar[k])
        RHS == getRHS(table.grammar[k])
    IN  IF RHS # EPSILON THEN Elements(table.firstSets[<<RHS[1]>>])
        ELSE Elements(table.followSets[LHS])

\* The entry of a table for (nonTerminal, terminal); 0 when there is none.
Cell(parsingTable, nonTerminal, terminal) ==
    IF nonTerminal \in DOMAIN parsingTable
       /\ terminal \in DOMAIN parsingTable[nonTerminal]
    THEN parsingTable[nonTerminal][terminal]
    ELSE 0

\* Every symbol that names a row or a column in some input.
TableSymbols ==
    DOMAIN firstSets_1 \cup DOMAIN firstSets_2
        \cup UNION {Elements(followSets_1[A]) : A \in DOMAIN followSets_1}
        \cup UNION {Elements(followSets_2[A]) : A \in DOMAIN followSets_2}
        \cup UNION {Elements(firstSets_2[A]) : A \in DOMAIN firstSets_2}

\* C18: the iteration of buildParsingTable for production k with LHS A puts
\* k in row A under exactly the columns the rules name for k (First of the
\* first RHS symbol, Follow(A) for an epsilon RHS) and writes no other cell;
\* for the two examples the table returned is the documented one.
C18_ParsingTable ==
    /\ [][(table.pc = "loop" /\ table.keys # <<>>) =>
             LET k == Head(table.keys)
                 A == getLHS(table.grammar[k])
             IN  /\ table'.pc = "loop"
                 /\ \A nonTerminal \in TableSymbols, terminal \in TableSymbols :
                        Cell(table'.parsingTable, nonTerminal, terminal) =
                            IF nonTerminal = A /\ terminal \in Columns(k) THEN k
                            ELSE Cell(table.parsingTable, nonTerminal, terminal)]_vars
    /\ [](table.pc = "done" =>
             /\ table.grammar = grammar_1 => table.parsingTable = DocumentedTable1
             /\ table.grammar = grammar_2 => table.parsingTable = DocumentedTable2)

\* buildParsingTable has returned the table of example 2, whose epsilon
\* productions 3 and 6 stand under the Follow columns.
C18_Witness ==
    /\ table.pc = "done"
    /\ table.grammar = grammar_2
    /\ Cell(table.parsingTable, <<"X">>, Dollar) = 3
    /\ Cell(table.parsingTable, <<"F">>, <<"(">>) = 8

\* Two distinct non-final items of one closure with the same symbol at the
\* dot, both with a goto target.
SameSymbolPair(c, i, j) ==
    /\ i \in ItemsOf(c) /\ j \in ItemsOf(c)
    /\ i # j
    /\ ~isFinal(items[i]) /\ ~isFinal(items[j])
    /\ getCurrentSymbol(items[i]) = getCurrentSymbol(items[j])
    /\ isConnected(items[i]) /\ isConnected(items[j])

\* C19 as stated: any two non-final items of the same closure with the same
\* symbol at the dot have the same goto target Closure.
C19_OneEdgePerSymbol ==
    \A c \in ClosureIds : \A i, j \in ItemIds :
        SameSymbolPair(c, i, j) => items[i].gotoPointer = items[j].gotoPointer

\* C19 amended: the goto edges are per item object, not per symbol: two
\* distinct items never have the same goto target Closure, whether or not
\* they stand in one closure with the same symbol at the dot, and the kernel
\* of an item's target is over the item's own production.
C19_OneEdgePerItem ==
    \A i, j \in ItemIds :
        (isConnected(items[i]) /\ isConnected(items[j]) /\ i # j) =>
            /\ items[i].gotoPointer # items[j].gotoPointer
            /\ items[GotoKernel(i)].production = items[i].production

\* A closure holds two distinct items with the same symbol at the dot, each
\* with its goto target.
C19_Witness ==
    \E c \in ClosureIds : \E i, j \in ItemIds : SameSymbolPair(c, i, j)

\* The depth-first pre-order expansion of item i: the item, then for each
\* production of its dot non-terminal, in production-number order, the
\* registry's dot-0 item followed by that item's own expansion.  n bounds
\* the depth.
RECURSIVE Expansion(_, _)
RECURSIVE ExpansionOfEach(_, _, _)
Expansion(i, n) ==
    IF n = 0 \/ ~shouldClosure(items[i]) THEN <<i>>
    ELSE <<i>> \o ExpansionOfEach(
                      ProductionsFrom(grammars[items[i].grammar],
                                      getCurrentSymbol(items[i]), 0),
                      items[i].grammar, n - 1)

ExpansionOfEach(numbers, g, n) ==
    IF numbers = <<>> THEN <<>>
    ELSE LET itemKey == keyForItem(getProduction(grammars[g], Head(numbers)), 0)
         IN  (IF itemKey \in DOMAIN LRItemsRegistry
              THEN Expansion(LRItemsRegistry[itemKey], n)
              ELSE <<Null>>)
             \o ExpansionOfEach(Tail(numbers), g, n)

\* C20: the item sequence of a constructed Closure is exactly the depth-first
\* pre-order expansion of its kernel in production-number order, an item
\* reached again being appended again.
C20_DepthFirstItemSequence ==
    \A c \in ClosureIds :
        Constructed(c) => closures[c].items = Expansion(closures[c].kernelItem, MaxStack)

\* A constructed closure whose sequence holds the same item twice, with
\* another item in between.
C20_Witness ==
    \E c \in ClosureIds :
        /\ Constructed(c)
        /\ \E m, n \in 1..Len(closures[c].items) :
               /\ m + 1 < n
               /\ closures[c].items[m] = closures[c].items[n]

\* The items goto has created: those whose dot advance() has moved.
Advanced == {i \in ItemIds : items[i].dotPosition > 0}

\* The item objects the registry holds.
RegistryItems == {LRItemsRegistry[k] : k \in DOMAIN LRItemsRegistry}

C22_FinalItemHasNoGoto ==
    [][/\ \A i \in ItemIds :
              (Idle /\ isFinal(items[i]) /\ CallGoto(i))
                  => /\ status' = "idle" /\ stack' = <<>>
                     /\ ret'.op = "goto" /\ ret'.obj = i /\ ret'.value = Null
                     /\ items'[i].gotoPointer = Null
                     /\ UNCHANGED <<grammars, items, closures, LRItemsRegistry>>
       /\ (At("goto", "enter") /\ isFinal(items[Top.obj]) /\ GotoNested)
              => /\ stack' = Below
                 /\ status' \in {"idle", "running"}
                 /\ UNCHANGED <<grammars, items, closures, LRItemsRegistry>>]_vars

\* goto() was called twice in a row on a final item of a graph with goto
\* edges, and returned nothing.
C22_Witness ==
    /\ Idle
    /\ ret.op = "goto" /\ ret.again
    /\ isFinal(items[ret.obj])
    /\ ret.value = Null
    /\ items[ret.obj].gotoPointer = Null
    /\ \E c \in ClosureIds : closures[c].kernelItem = ret.obj

\* The symbols of a grammar: every LHS and every RHS symbol.
SymbolsOf(g) ==
    {getProduction(g, k).LHS : k \in ProductionNumbers(g)}
        \cup UNION {{getProduction(g, k).RHS[n] : n \in 1..Len(getProduction(g, k).RHS)} :
                       k \in ProductionNumbers(g)}

\* The symbols the user's productions are written with.
UserSymbolsOf(g) ==
    {getProduction(g, k).LHS : k \in 1..(Len(g.bnf) - 1)}
        \cup UNION {{getProduction(g, k).RHS[n] : n \in 1..Len(getProduction(g, k).RHS)} :
                       k \in 1..(Len(g.bnf) - 1)}

\* keys is the ascending enumeration of exactly the production numbers of g
\* whose production has the symbol as LHS.
ExactlyProductionsFor(keys, g, symbol) ==
    /\ \A m, n \in 1..Len(keys) : m < n => keys[m] < keys[n]
    /\ {keys[n] : n \in 1..Len(keys)}
           = {k \in ProductionNumbers(g) : getProduction(g, k).LHS = symbol}

\* C23: getProductionsForSymbol(symbol) returns exactly the productions whose
\* LHS is the symbol, each under its own number; the user's productions are
\* numbered 1..N in source order; the augmented production (number 0) is in
\* the result for no symbol the user wrote and is the result for S'.  It is
\* stated of every symbol of every loaded grammar and of the result _build
\* has just received.
C23_ProductionsForSymbol ==
    /\ \A s \in 1..Len(grammars) :
           LET g     == grammars[s]
               lines == toArray(g.originalBnf)
           IN  /\ Len(g.bnf) = Len(lines) + 1
               /\ \A k \in 1..Len(lines) :
                      getProduction(g, k).RHS = Production(lines[k]).RHS
               /\ \A symbol \in SymbolsOf(g) :
                      ExactlyProductionsFor(getProductionsForSymbol(g, symbol), g, symbol)
               /\ \A symbol \in UserSymbolsOf(g) :
                      \A n \in 1..Len(getProductionsForSymbol(g, symbol)) :
                          getProductionsForSymbol(g, symbol)[n] # 0
               /\ getProductionsForSymbol(g, Append(g.startSymbol, "'")) = <<0>>
    /\ (At("build", "loop") /\ Top.idx = 1) =>
           ExactlyProductionsFor(Top.prods, grammars[closures[Top.obj].grammar],
                                 getCurrentSymbol(CurrentItem(Top.obj)))

\* _build has just received the two productions of a non-terminal, numbered
\* 2 and 3, for a grammar whose first production has another LHS.
C23_Witness ==
    /\ At("build", "loop") /\ Top.idx = 1
    /\ Top.prods = <<2, 3>>
    /\ getProduction(grammars[closures[Top.obj].grammar], 1).LHS
           # getCurrentSymbol(CurrentItem(Top.obj))

\* The non-terminals the user's productions define.
NonTerminalsOf(g) == {getProduction(g, k).LHS : k \in 1..(Len(g.bnf) - 1)}

\* The symbols that stand leftmost in a production of a symbol of S.
LeftmostOf(g, S) ==
    {getProduction(g, k).RHS[1] :
        k \in {n \in ProductionNumbers(g) : getProduction(g, n).LHS \in S}}

\* The symbols reached from the symbols of S through leftmost RHS symbols,
\* in one step or more.
RECURSIVE LeftReach(_, _, _)
LeftReach(g, S, seen) ==
    LET more == seen \cup LeftmostOf(g, S)
    IN  IF more = seen THEN seen ELSE LeftReach(g, more, more)

\* No non-terminal of g reaches itself through leftmost RHS symbols.
NotLeftRecursive(g) ==
    \A N \in NonTerminalsOf(g) : N \notin LeftReach(g, {N}, {})

\* The _build frames of closure c on the stack, innermost last.
BuildFramesOf(c) ==
    SelectSeq(stack, LAMBDA f : f.op = "build" /\ f.obj = c)

\* The non-terminal a _build frame is expanding (the LHS of the productions
\* it loops over), for the frames that loop over any.
Expanding(c) ==
    SelectSeq(BuildFramesOf(c), LAMBDA f : f.pc = "loop" /\ f.prods # <<>>)

ExpandedSymbol(c, f) == getProduction(grammars[closures[c].grammar], f.prods[1]).LHS

\* C24: for a grammar that is not left-recursive, directly or indirectly, no
\* call exhausts the stack; the nested expansions inside one closure expand
\* pairwise distinct non-terminals, so at most as many as the grammar
\* defines (and the nested _build calls, the innermost one that expands
\* nothing included, are at most one more: the non-terminals with S');
\* and closure() followed by goto() on the root returns.
C24_TerminatesWithoutLeftRecursion ==
    /\ [](NotLeftRecursive(grammars[1]) =>
            /\ status # "RangeError"
            /\ \A c \in ClosureIds :
                   /\ \A m, n \in 1..Len(Expanding(c)) :
                          m # n => ExpandedSymbol(c, Expanding(c)[m])
                                      # ExpandedSymbol(c, Expanding(c)[n])
                   /\ Len(Expanding(c)) <= Cardinality(NonTerminalsOf(grammars[1]))
                   /\ Len(BuildFramesOf(c)) <= Cardinality(NonTerminalsOf(grammars[1])) + 1)
    /\ (NotLeftRecursive(grammars[1]) ~> BuildReturned)

\* The graph of a grammar that is not left-recursive is built, and its root
\* closure holds items added by an expansion nested in another.
C24_Witness ==
    /\ NotLeftRecursive(grammars[1])
    /\ BuildReturned
    /\ Len(closures[RootClosure].items) >= 4
    /\ Cardinality(Reachable) >= 5

\* C25: the predictive parser's run() returns true exactly for the sentences
\* of S -> s A d, A -> a b | c; an input in which A matches nothing, such as
\* "sd", gives false.
C25_PredictiveAcceptsExactlySentences ==
    compiler.pc = "done" => (compiler.returned <=> compiler.input \in Sentences)

\* The cursor on entry of compilerA: eat('s') has moved it iff the input
\* starts with 's'.
EntryOfA ==
    IF Len(compiler.input) >= 1 /\ compiler.input[1] = "s" THEN 1 ELSE 0

\* The character of the input at 0-based position n, "undefined" past the end.
CharAt(n) ==
    IF n < Len(compiler.input) THEN compiler.input[n + 1] ELSE "undefined"

\* C28: in the backtracking parser, when the first alternative of A (a b)
\* fails, having eaten 'a' or nothing, the second alternative (c) is tried
\* from exactly the cursor compilerA was entered with; when the first
\* alternative succeeds the second is not tried and the cursor has advanced
\* by exactly 2; and the cursor never exceeds the input length.
C28_BacktrackRestoresCursor ==
    /\ [](compiler.cursor <= Len(compiler.input))
    /\ [][CompilerA1 =>
            /\ compiler.cursor = EntryOfA
            /\ compiler'.save = EntryOfA
            /\ IF CharAt(EntryOfA) = "a" /\ CharAt(EntryOfA + 1) = "b"
               THEN compiler'.pc = "eatD" /\ compiler'.cursor = EntryOfA + 2
               ELSE compiler'.pc = "compilerA2"]_vars
    /\ [][CompilerA2 =>
            /\ compiler'.pc = "eatD"
            /\ compiler'.cursor =
                   IF CharAt(EntryOfA) = "c" THEN EntryOfA + 1 ELSE EntryOfA]_vars

\* The first alternative ate 'a' and failed on 'b'; the second alternative
\* has then been tried from the position compilerA was entered with.
C28_Witness ==
    /\ compiler.pc = "eatD"
    /\ CharAt(EntryOfA) = "a"
    /\ CharAt(EntryOfA + 1) # "b"
    /\ compiler.cursor = EntryOfA
    /\ EntryOfA = 1

\* The closures of the graph: the root closure and every goto target.
GraphClosures ==
    (IF RootClosure = Null THEN {} ELSE {RootClosure})
        \cup {items[i].gotoPointer : i \in {j \in ItemIds : isConnected(items[j])}}

\* The (production, dot position) pair of a closure's kernel.
KernelPair(c) ==
    <<items[closures[c].kernelItem].production,
      items[closures[c].kernelItem].dotPosition>>

\* The sum of the RHS lengths of the productions numbered k and above.
RECURSIVE RhsLengthFrom(_, _)
RhsLengthFrom(g, k) ==
    IF k >= Len(g.bnf) THEN 0
    ELSE Len(getProduction(g, k).RHS) + RhsLengthFrom(g, k + 1)

\* C26: for one grammar and a registry that was empty at its start, no two
\* distinct closures of the graph (the root closure and the goto targets,
\* hence the closures reachable from the root) have kernels with the same
\* production and the same dot position, and they are at most 1 plus the sum
\* of the RHS lengths of all productions, the augmented one included.
C26_OneClosurePerKernelPair ==
    /\ \A c, d \in GraphClosures : c # d => KernelPair(c) # KernelPair(d)
    /\ Reachable \subseteq GraphClosures
    /\ Cardinality(GraphClosures) <= 1 + RhsLengthFrom(grammars[1], 0)

\* The graph is built, and an item that two of its closures hold has its
\* one goto target.
C26_Witness ==
    /\ BuildReturned
    /\ Cardinality(GraphClosures) >= 5
    /\ \E c, d \in Reachable :
           /\ c # d
           /\ \E i \in AddedOf(c) \cap AddedOf(d) : isConnected(items[i])

\* What compile(ast) prints as the first call of a script.
PrintedAlone(ast) ==
    Join(compileNode(ast, [output |-> <<>>, prevBinaryOp |-> "undefined"]).output, <<>>)

\* C27: the text compile(ast) prints depends on ast alone: a compile call
\* that follows another prints what it prints as a first call.
C27_CompileDependsOnlyOnAst ==
    printer.pc = "doneAgain" => printer.printed = PrintedAlone(printer.ast)

\* C29: the stack-based traversal ends without an error and has applied the
\* condition to the nodes of the tree in the order in which inOrder and
\* makeTreeIterator yield their values: every node once, the nodes of the
\* root's right subtree included.
C29_NonRecursiveVisitsInOrder ==
    /\ traverse.pc # "TypeError"
    /\ traverse.pc = "done" =>
           /\ traverse.applied = inOrder(traverse.tree)
           /\ traverse.applied = makeTreeIterator(traverse.tree)

=============================================================================
